---- MODULE Spec2Model ----
(***************************************************************************)
(* Lens edger planning and simulation engine (relatable52/lens_edger_dash). *)
(*                                                                         *)
(* The parts of the engine are modelled each with its own specification   *)
(* over the shared variables:                                              *)
(*   SpecRescale     the removal-rate histogram and the time-axis          *)
(*                   rescaling (core/geometric/lens_volume.py and the      *)
(*                   callback adjust_timing_for_volume_constraints);       *)
(*   SpecCallbacks   the callback chain that follows generate_path;        *)
(*   SpecVoxel       the per-frame voxel update of                         *)
(*                   compute_voxel_death_times;                            *)
(*   SpecPath        the movement path builder                             *)
(*                   (core/cam/movement_path.py);                          *)
(*   SpecRoughing    the roughing contours                                 *)
(*                   (core/geometric/roughing_generation.py);              *)
(*   SpecKinematics  the kinematics solver (core/cam/kinematics.py).       *)
(*                                                                         *)
(* Real numbers are modelled exactly as reduced fractions <<n, d>>, d > 0; *)
(* floating-point rounding is not modelled.  Python's 0-based arrays are   *)
(* functions over 0..n-1 so that frame indices read as in the source.      *)
(***************************************************************************)
EXTENDS Integers, Sequences, FiniteSets, TLC

VARIABLES
    pc,                 \* which operation of the engine has run
    \* ---- rescaling (dcc.Store contents and the callback's locals)
    time_in,            \* the time array generate_path stored (kept for reference)
    store_path_time,    \* store-path-time['time']
    pass_segments,      \* store-simulation-path['pass_segments']
    death_times,        \* store-lens-volume scalars, per voxel
    volume_per_frame,   \* rate_info['volume_removed_per_frame']
    max_allowed_rate,   \* rate_info['max_allowed_rate']
    adjusted_time,      \* result of adjust_time_array_for_volume_constraints
    pending,            \* callbacks whose Input was written and that have not run yet
    runs,               \* per callback: how many times it has run
    \* ---- voxel simulation (compute_voxel_death_times)
    blank,              \* the voxels argument: the blank's scalars, per voxel
    order,              \* the frames whose loop body has run, in running order
    tool_dist,          \* per processed frame: clipped d_vals - tool_surface_radii
    wheel_used,         \* per processed frame: index of the active wheel, -1 if none
    \* ---- movement path builder (generate_complete_lens_path)
    roughing_passes,    \* list of passes, each the kinematics solution of its contour
    bevel_kinematics,   \* kinematics solution of the final contour
    steps,              \* paths['complete'].steps
    full_path,          \* what complete_path.get_full_path() returned
    frame_at_time,      \* what complete_path.get_frame_at_time(t) returned, per t asked
    \* ---- roughing contours (generate_roughing_operations)
    final_radii,        \* the target contour
    blank_radius,       \* radius of the blank
    roughing_settings,  \* method and configured passes
    results,            \* the returned list of RoughingPassData
    \* ---- kinematics (solve_lens_kinematics_robust)
    contour,            \* radii and z_map of the contour to solve
    tool,               \* tool_radius, tilt and tool_z_offset
    kinematics          \* the returned arrays

rescaleVars == <<time_in, store_path_time, volume_per_frame, max_allowed_rate,
                 adjusted_time>>
chainVars == <<pending, runs>>

voxelVars == <<blank, order, tool_dist, wheel_used>>

pathVars == <<roughing_passes, bevel_kinematics, steps, full_path, frame_at_time>>

roughVars == <<final_radii, blank_radius, roughing_settings, results>>

kinVars == <<contour, tool, kinematics>>

vars == <<pc, pass_segments, death_times, rescaleVars, chainVars, voxelVars,
          pathVars, roughVars, kinVars>>

----------------------------------------------------------------------------
(* Exact rational arithmetic.                                              *)

Abs(x) == IF x < 0 THEN -x ELSE x

RECURSIVE GCD(_, _)
GCD(a, b) == IF b = 0 THEN a ELSE GCD(b, a % b)

\* the reduced fraction n/d, d # 0
Rat(n, d) ==
    LET g == GCD(Abs(n), Abs(d))
        s == IF d < 0 THEN -1 ELSE 1
    IN  <<(s * n) \div g, (s * d) \div g>>

RInt(n) == <<n, 1>>
RZero == <<0, 1>>
RAdd(p, q) ==
    LET g == GCD(p[2], q[2])
    IN  Rat(p[1] * (q[2] \div g) + q[1] * (p[2] \div g), (p[2] \div g) * q[2])
RSub(p, q) == RAdd(p, <<-q[1], q[2]>>)
RMul(p, q) ==
    LET a == Rat(p[1], q[2])
        b == Rat(q[1], p[2])
    IN  <<a[1] * b[1], a[2] * b[2]>>
RDiv(p, q) == IF q[1] < 0 THEN RMul(p, <<-q[2], -q[1]>>) ELSE RMul(p, <<q[2], q[1]>>)
RLeq(p, q) == p[1] * q[2] <= q[1] * p[2]
RLt(p, q) == p[1] * q[2] < q[1] * p[2]
RAbs(p) == <<Abs(p[1]), p[2]>>

\* a Python list/numpy array of length n as a function over 0..n-1
Len0(a) == Cardinality(DOMAIN a)
EmptyArr == [i \in {} |-> 0]

----------------------------------------------------------------------------
(* Bounds of the model.                                                    *)

NumFrames == 4      \* frames of the stored path in SpecRescale
NumSimFrames == 6   \* frames of the tool path in SpecVoxel
NumVoxels == 2      \* voxels of the stored grid in SpecRescale
NumSimVoxels == 1   \* voxels of the grid in SpecVoxel
MaxSegs == 2        \* pass segments of the stored path

Frames == 0 .. NumFrames - 1
Voxels == 1 .. NumVoxels
SimVoxels == 1 .. NumSimVoxels

----------------------------------------------------------------------------
(* Removal-rate histogram and rate caps: calculate_volume_removal_rates.   *)

DeathCeiling == 1000          \* scalar of a voxel that is never cut
DefaultRate == 100            \* max_allowed_rate default, mm^3/s

\* an optional float: {} is None, {r} is the value r
IsNone(opt) == opt = {}
Value(opt) == CHOOSE r \in opt : TRUE

\* death_frame_indices = death_times / 1000 * num_frames, then the bin of
\* np.histogram(bins = arange(num_frames + 1)); -1 stands for "in no bin"
DeathFrameBin(s, F) ==
    LET idx == RDiv(RMul(s, RInt(F)), RInt(DeathCeiling))
    IN  IF RLt(idx, RInt(F)) /\ RLeq(RZero, idx)
        THEN idx[1] \div idx[2]
        ELSE -1

VolumePerFrame(death, F, voxel_volume) ==
    [i \in 0 .. F - 1 |->
        RMul(RInt(Cardinality({v \in DOMAIN death : DeathFrameBin(death[v], F) = i})),
             voxel_volume)]

SegContains(seg, i) == seg.start_idx <= i /\ i <= seg.end_idx
InAnySegment(segs, i) == \E j \in 1 .. Len(segs) : SegContains(segs[j], i)

\* max_allowed_rate[i] after the first k segments have been applied
RECURSIVE RateAfterSegments(_, _, _)
RateAfterSegments(segs, k, i) ==
    IF k = 0 THEN RInt(DefaultRate)
    ELSE LET seg == segs[k]
             max_vol == seg.max_volume_rate
         IN  IF /\ ~IsNone(max_vol)
                /\ RLt(RZero, Value(max_vol))
                /\ SegContains(seg, i)
             THEN Value(max_vol)
             ELSE RateAfterSegments(segs, k - 1, i)

\* variant: a segment without a cap of its own also takes the rate of the
\* frame before it
RECURSIVE FilledRateInherit(_, _)
FilledRateInherit(segs, i) ==
    IF i < 0 THEN RInt(DefaultRate)
    ELSE IF \E j \in 1 .. Len(segs) :
                SegContains(segs[j], i) /\ ~IsNone(segs[j].max_volume_rate)
    THEN RateAfterSegments(segs, Len(segs), i)
    ELSE FilledRateInherit(segs, i - 1)

\* the forward fill: a frame in no segment takes the rate of the last frame
\* before it that lies in a segment, 100.0 when there is none
RECURSIVE FilledRate(_, _)
FilledRate(segs, i) ==
    IF i < 0 THEN RInt(DefaultRate)
    ELSE IF InAnySegment(segs, i) THEN RateAfterSegments(segs, Len(segs), i)
    ELSE FilledRate(segs, i - 1)

MaxAllowedRate(segs, F) == [i \in 0 .. F - 1 |-> FilledRate(segs, i)]

----------------------------------------------------------------------------
(* Time-axis rescaling: adjust_time_array_for_volume_constraints.          *)

ActualRate(vol, original_dt) ==
    IF RLt(RZero, original_dt) THEN RDiv(vol, original_dt) ELSE RZero

\* variant: a frame over its cap is slowed down by half instead of to the
\* required time
AdjustedDeltaStretched(original_dt, vol, max_rate) ==
    IF RLt(max_rate, ActualRate(vol, original_dt)) /\ RLt(RZero, max_rate)
    THEN RMul(original_dt, Rat(3, 2))
    ELSE original_dt

\* variant: the required time is used without comparing the rates
AdjustedDeltaAlwaysRequired(original_dt, vol, max_rate) ==
    IF RLt(RZero, max_rate) THEN RDiv(vol, max_rate) ELSE original_dt

\* the time delta given to a frame
AdjustedDelta(original_dt, vol, max_rate) ==
    IF RLt(max_rate, ActualRate(vol, original_dt)) /\ RLt(RZero, max_rate)
    THEN RDiv(vol, max_rate)
    ELSE original_dt

RECURSIVE AdjustedAt(_, _, _, _)
AdjustedAt(time, vol, rate, i) ==
    IF i = 0 THEN RZero
    ELSE RAdd(AdjustedAt(time, vol, rate, i - 1),
              AdjustedDelta(RSub(time[i], time[i - 1]), vol[i], rate[i]))

\* variant: the last frame gets no entry
AdjustTimeArrayDropLast(time, vol, rate) ==
    [i \in 0 .. Len0(time) - 2 |-> AdjustedAt(time, vol, rate, i)]

AdjustTimeArray(time, vol, rate) ==
    [i \in DOMAIN time |-> AdjustedAt(time, vol, rate, i)]

\* |x| <= atol + rtol * |y| with atol = 1e-8 and rtol = 1e-6, that is
\* 10^8 * |x| <= 1 + 100 * |y|; written with a floor so that no product
\* leaves the 32-bit integers of the model checker
WithinTolerance(x, y) ==
    Abs(x[1]) * y[2] <= (x[2] * y[2] + 100 * Abs(y[1]) * x[2]) \div 100000000

\* np.allclose(a, b, rtol=1e-6):  |a - b| <= atol + rtol * |b| at every index
AllClose(a, b) ==
    \A i \in DOMAIN a : WithinTolerance(RSub(a[i], b[i]), b[i])

\* variant: any segment at all counts as a constraint
HasConstraintsAnySegment(segs) == Len(segs) > 0

\* any(seg.get('max_volume_rate') is not None for seg in pass_segments)
HasConstraints(segs) ==
    \E j \in 1 .. Len(segs) : ~IsNone(segs[j].max_volume_rate)

\* voxel_volume_mm3 = spacing[0] * spacing[1] * spacing[2]
VoxelVolume == RInt(1)

\* body of the callback adjust_timing_for_volume_constraints, from the
\* pass_segments check on
AdjustTiming ==
    /\ IF pass_segments = <<>>
       THEN /\ pc' = "no_segments"
            /\ UNCHANGED <<store_path_time, volume_per_frame, max_allowed_rate,
                           adjusted_time>>
       ELSE IF ~HasConstraints(pass_segments)
       THEN /\ pc' = "no_constraints"
            /\ UNCHANGED <<store_path_time, volume_per_frame, max_allowed_rate,
                           adjusted_time>>
       ELSE LET time_array == store_path_time
                F == Len0(time_array)
                vol == VolumePerFrame(death_times, F, VoxelVolume)
                rate == MaxAllowedRate(pass_segments, F)
                adj == AdjustTimeArray(time_array, vol, rate)
            IN  /\ volume_per_frame' = vol
                /\ max_allowed_rate' = rate
                /\ adjusted_time' = adj
                /\ IF AllClose(adj, time_array)
                   THEN pc' = "unchanged" /\ UNCHANGED store_path_time
                   ELSE pc' = "updated" /\ store_path_time' = adj
    /\ UNCHANGED <<time_in, pass_segments, death_times, voxelVars, pathVars,
                   roughVars, kinVars>>

\* callback adjust_timing_for_volume_constraints (Input: store-lens-volume),
\* run on a stored volume
AdjustTimingCallback ==
    /\ pc = "volume_stored"
    /\ AdjustTiming
    /\ UNCHANGED chainVars

----------------------------------------------------------------------------
(* Inputs of the rescaling: what generate_path and the voxel simulation    *)
(* leave in the stores.                                                    *)

\* time deltas between consecutive frames: 0 at the first frame of a step
\* (each step's time array restarts at 0 and is re-based), else a frame period
TimeDeltas == {RZero, Rat(1, 100)}

RECURSIVE CumulativeTime(_, _)
CumulativeTime(d, i) ==
    IF i = 0 THEN RZero ELSE RAdd(CumulativeTime(d, i - 1), d[i])

TimeArrays ==
    {[i \in Frames |-> CumulativeTime(d, i)] : d \in [1 .. NumFrames - 1 -> TimeDeltas]}

\* max_vol values the operator entered in the pass table
CapRates == {RInt(150)}

\* operation type and cap of a segment: generate_path caps roughing segments
\* only; the finishing pass and the bevel pass have no table row, so no cap
SegKinds ==
    { <<"roughing", {}>>, <<"beveling", {}>> } \cup
    { <<"roughing", {r}>> : r \in CapRates }

Segment(a, b, k) ==
    [start_idx |-> a, end_idx |-> b, operation_type |-> k[1],
     max_volume_rate |-> k[2]]

\* two cutting steps of a stitched path are separated by an approach or a
\* retract step, each of at least this many frames
MinLinearFrames == 2

\* lists of at most n disjoint segments in increasing order within lo..F-1,
\* consecutive ones separated by a linear step
RECURSIVE SegLists(_, _, _)
SegLists(lo, n, F) ==
    IF n = 0 THEN {<<>>}
    ELSE {<<>>} \cup
         UNION { UNION { { <<Segment(a, b, k)>> \o rest :
                              rest \in SegLists(b + 1 + MinLinearFrames, n - 1, F),
                              k \in SegKinds } :
                         b \in a .. F - 1 } :
                 a \in lo .. F - 1 }

\* pass_index of the segments: the roughing steps count from 1, the beveling
\* step has 1
WithPassIndex(segs) ==
    [j \in 1 .. Len(segs) |->
        [start_idx |-> segs[j].start_idx,
         end_idx |-> segs[j].end_idx,
         pass_index |->
            IF segs[j].operation_type = "roughing"
            THEN 1 + Cardinality({i \in 1 .. j - 1 :
                                     segs[i].operation_type = "roughing"})
            ELSE 1,
         operation_type |-> segs[j].operation_type,
         max_volume_rate |-> segs[j].max_volume_rate]]

\* the spatial arrays of store-simulation-path: one frame per time entry
StoredPath ==
    [x |-> [i \in Frames |-> RInt(i - 50)],
     z |-> [i \in Frames |-> RZero],
     theta |-> [i \in Frames |-> RInt(90 * i)],
     total_frames |-> NumFrames]

\* scalars the simulation leaves in a voxel: air (0), never cut (1000), or cut
\* so that death_times / 1000 * num_frames falls in the middle of frame k's bin
DeathValues ==
    {RZero, RInt(DeathCeiling)} \cup
    {Rat(DeathCeiling * (2 * k + 1), 2 * NumFrames) : k \in 1 .. NumFrames - 1}

InitRescale ==
    /\ pc = "volume_stored"
    /\ time_in \in TimeArrays
    /\ store_path_time = time_in
    /\ pass_segments \in {WithPassIndex(segs) : segs \in SegLists(0, MaxSegs, NumFrames)}
    /\ death_times \in [Voxels -> DeathValues]
    /\ volume_per_frame = EmptyArr
    /\ max_allowed_rate = EmptyArr
    /\ adjusted_time = EmptyArr
    /\ pending = {}
    /\ runs = EmptyArr
    /\ blank = EmptyArr
    /\ order = <<>>
    /\ tool_dist = EmptyArr
    /\ wheel_used = EmptyArr
    /\ roughing_passes = <<>>
    /\ bevel_kinematics = EmptyArr
    /\ steps = <<>>
    /\ full_path = StoredPath
    /\ frame_at_time = EmptyArr
    /\ final_radii = EmptyArr
    /\ blank_radius = RZero
    /\ roughing_settings = [method |-> "CONCENTRIC", passes |-> <<>>]
    /\ results = <<>>
    /\ contour = [radii |-> EmptyArr, z_map |-> EmptyArr]
    /\ tool = [tool_radius |-> RZero]
    /\ kinematics = EmptyArr

NextRescale == AdjustTimingCallback

SpecRescale == InitRescale /\ [][NextRescale]_vars

----------------------------------------------------------------------------
(* The callback chain after a click on "Generate Paths": the callbacks of  *)
(* callbacks/simulation_logic.py and callbacks/removal_simulation_logic.py *)
(* that have one of the three stores as Input.  Dash runs a callback when  *)
(* a property among its Inputs is written; a callback that returns         *)
(* no_update writes nothing.                                               *)

\* the callbacks that write a store
StoreCallbacks ==
    {"generate_lens_volume_data", "adjust_timing_for_volume_constraints"}

\* callbacks with a store as Input whose Outputs are view properties: one
\* for the time store and one for the volume store (render_simulation_frame,
\* enable_download_button and the clientside renderers are of the same kind)
ViewCallbacks == {"update_slider_max", "generate_tool_data"}

Callbacks == StoreCallbacks \cup ViewCallbacks

\* variant: the timing callback also listens to the time store it writes
CallbackInputsTimeStore(c) ==
    CASE c = "generate_lens_volume_data" -> {"store-simulation-path"}
      [] c = "adjust_timing_for_volume_constraints" ->
             {"store-lens-volume", "store-path-time"}
      [] c = "update_slider_max" -> {"store-path-time"}
      [] c = "generate_tool_data" -> {"store-lens-volume"}

\* the Input(...) declarations of the callbacks; State(...) triggers nothing
CallbackInputs(c) ==
    CASE c = "generate_lens_volume_data" -> {"store-simulation-path"}
      [] c = "adjust_timing_for_volume_constraints" -> {"store-lens-volume"}
      [] c = "update_slider_max" -> {"store-path-time"}
      [] c = "generate_tool_data" -> {"store-lens-volume"}

\* the callbacks a write to the given stores triggers
Triggered(stores) == {c \in Callbacks : CallbackInputs(c) \cap stores # {}}

Ran(c) == runs' = [runs EXCEPT ![c] = @ + 1]

\* volumes the simulation may store: every voxel never cut, or every voxel
\* cut within the same frame
StoredVolumes == {[v \in Voxels |-> d] : d \in DeathValues \ {RZero}}

\* callback generate_lens_volume_data (Input: store-simulation-path): returns
\* no_update when the lens has no blank data, else the simulated volume
GenerateLensVolumeData ==
    LET c == "generate_lens_volume_data"
    IN  /\ c \in pending
        /\ Ran(c)
        /\ \E has_blank \in BOOLEAN :
              IF ~has_blank
              THEN /\ pending' = pending \ {c}
                   /\ UNCHANGED <<pc, death_times>>
              ELSE /\ death_times' \in StoredVolumes
                   /\ pc' = "volume_stored"
                   /\ pending' = (pending \ {c}) \cup Triggered({"store-lens-volume"})
        /\ UNCHANGED <<pass_segments, rescaleVars, voxelVars, pathVars, roughVars,
                       kinVars>>

\* callback adjust_timing_for_volume_constraints as the dispatcher runs it:
\* no_update without a stored volume; a returned time array is a write to
\* store-path-time
AdjustTimingTriggered ==
    LET c == "adjust_timing_for_volume_constraints"
    IN  /\ c \in pending
        /\ Ran(c)
        /\ IF death_times = EmptyArr
           THEN /\ pending' = pending \ {c}
                /\ UNCHANGED <<pc, pass_segments, death_times, rescaleVars,
                               voxelVars, pathVars, roughVars, kinVars>>
           ELSE /\ AdjustTiming
                /\ pending' = (pending \ {c}) \cup
                                 (IF pc' = "updated"
                                  THEN Triggered({"store-path-time"})
                                  ELSE {})

\* a callback that reads a store and writes view properties only
ViewCallback(c) ==
    /\ c \in ViewCallbacks
    /\ c \in pending
    /\ Ran(c)
    /\ pending' = pending \ {c}
    /\ UNCHANGED <<pc, pass_segments, death_times, rescaleVars, voxelVars,
                   pathVars, roughVars, kinVars>>

\* the stores as generate_path leaves them: both of its Outputs written, no
\* volume stored yet
InitCallbacks ==
    /\ pc = "path_stored"
    /\ time_in \in TimeArrays
    /\ store_path_time = time_in
    /\ pass_segments \in {WithPassIndex(segs) : segs \in SegLists(0, MaxSegs, NumFrames)}
    /\ death_times = EmptyArr
    /\ volume_per_frame = EmptyArr
    /\ max_allowed_rate = EmptyArr
    /\ adjusted_time = EmptyArr
    /\ pending = Triggered({"store-simulation-path", "store-path-time"})
    /\ runs = [c \in Callbacks |-> 0]
    /\ blank = EmptyArr
    /\ order = <<>>
    /\ tool_dist = EmptyArr
    /\ wheel_used = EmptyArr
    /\ roughing_passes = <<>>
    /\ bevel_kinematics = EmptyArr
    /\ steps = <<>>
    /\ full_path = StoredPath
    /\ frame_at_time = EmptyArr
    /\ final_radii = EmptyArr
    /\ blank_radius = RZero
    /\ roughing_settings = [method |-> "CONCENTRIC", passes |-> <<>>]
    /\ results = <<>>
    /\ contour = [radii |-> EmptyArr, z_map |-> EmptyArr]
    /\ tool = [tool_radius |-> RZero]
    /\ kinematics = EmptyArr

NextCallbacks ==
    \/ GenerateLensVolumeData
    \/ AdjustTimingTriggered
    \/ \E c \in ViewCallbacks : ViewCallback(c)

SpecCallbacks == InitCallbacks /\ [][NextCallbacks]_vars

----------------------------------------------------------------------------
(* Voxel simulation: compute_voxel_death_times.                            *)
(*                                                                         *)
(* The geometry of one frame (tool position, axis, wheel profile) enters   *)
(* the update only through cut_mask = clip(d_vals - tool_surface_radii,    *)
(* -0.1, 0.1), one value per voxel; that value is the input of the frame.  *)

FrameSkip == 5                \* for i in range(0, num_steps, 5)

\* the frames the loop visits
StrideFrames(num_steps) == {i \in 0 .. num_steps - 1 : i % FrameSkip = 0}

\* cut_mask after np.clip: fully inside the tool, on its surface, outside
ClipDists == {Rat(-1, 10), RZero, Rat(1, 10)}

\* tool_stack.wheels[0] if operation_type == 'roughing' else wheels[1], for the
\* first segment that contains i; -1 when no segment does
RECURSIVE ActiveWheelFrom(_, _, _)
ActiveWheelFrom(segs, j, i) ==
    IF j > Len(segs) THEN -1
    ELSE IF SegContains(segs[j], i)
    THEN (IF segs[j].operation_type = "roughing" THEN 0 ELSE 1)
    ELSE ActiveWheelFrom(segs, j + 1, i)

\* variant: every segment selects the first wheel of the stack
ActiveWheelAlwaysFirst(segs, i) ==
    IF ActiveWheelFrom(segs, 1, i) = -1 THEN -1 ELSE 0

ActiveWheel(segs, i) == ActiveWheelFrom(segs, 1, i)

\* cut_mask = (1 - cut_mask/0.1)/2*(num_steps - i + 0.5)
\* current_step_times = 1000 - (cut_mask / num_steps) * 1000
MappedFrameValue(c, i, num_steps) ==
    LET frac == RDiv(RSub(RInt(1), RDiv(c, Rat(1, 10))), RInt(2))
        mask == RMul(frac, RAdd(RInt(num_steps - i), Rat(1, 2)))
    IN  RSub(RInt(DeathCeiling),
             RMul(RDiv(mask, RInt(num_steps)), RInt(DeathCeiling)))

\* variant: the frame's value replaces the stored one wherever the tool cuts
UpdateVoxelOverwrite(current, mapped) ==
    IF RLt(mapped, RInt(DeathCeiling)) THEN mapped ELSE current

\* variant: the larger value is kept
UpdateVoxelMax(current, mapped) ==
    IF RLt(mapped, current) THEN current ELSE mapped

\* death_times = np.minimum(death_times, current_step_times), per voxel
UpdateVoxel(current, mapped) ==
    IF RLt(mapped, current) THEN mapped ELSE current

\* one iteration of the frame loop, for a frame not yet visited.  The source
\* visits the frames in increasing order; any order is allowed here, which is
\* what a data-parallel execution of the loop may produce.
ProcessFrame(i) ==
    /\ pc = "simulating"
    /\ i \in StrideFrames(NumSimFrames)
    /\ \A k \in 1 .. Len(order) : order[k] # i
    /\ order' = Append(order, i)
    /\ LET w == ActiveWheel(pass_segments, i)
       IN  /\ wheel_used' = [f \in DOMAIN wheel_used \cup {i} |->
                                IF f = i THEN w ELSE wheel_used[f]]
           /\ IF w = -1
              THEN UNCHANGED <<death_times, tool_dist>>
              ELSE \E c \in [SimVoxels -> ClipDists] :
                      /\ tool_dist' = [f \in DOMAIN tool_dist \cup {i} |->
                                          IF f = i THEN c ELSE tool_dist[f]]
                      /\ death_times' =
                            [v \in SimVoxels |->
                                UpdateVoxel(death_times[v],
                                            MappedFrameValue(c[v], i, NumSimFrames))]
    /\ UNCHANGED <<chainVars, pc, pass_segments, blank, rescaleVars, pathVars, roughVars,
                   kinVars>>

\* return death_times
ReturnDeathTimes ==
    /\ pc = "simulating"
    /\ Len(order) = Cardinality(StrideFrames(NumSimFrames))
    /\ pc' = "simulated"
    /\ UNCHANGED <<chainVars, pass_segments, death_times, rescaleVars, voxelVars, pathVars,
                   roughVars, kinVars>>

\* generate_lens_volume with smooth_edge = 0: 1000 inside the blank, 0 outside
BlankValues == {RZero, RInt(DeathCeiling)}

InitVoxel ==
    /\ pc = "simulating"
    /\ pass_segments \in SegLists(0, MaxSegs, NumSimFrames)
    /\ blank \in [SimVoxels -> BlankValues]
    /\ death_times = blank
    /\ order = <<>>
    /\ tool_dist = EmptyArr
    /\ wheel_used = EmptyArr
    /\ time_in = EmptyArr
    /\ store_path_time = EmptyArr
    /\ volume_per_frame = EmptyArr
    /\ max_allowed_rate = EmptyArr
    /\ adjusted_time = EmptyArr
    /\ pending = {}
    /\ runs = EmptyArr
    /\ roughing_passes = <<>>
    /\ bevel_kinematics = EmptyArr
    /\ steps = <<>>
    /\ full_path = EmptyArr
    /\ frame_at_time = EmptyArr
    /\ final_radii = EmptyArr
    /\ blank_radius = RZero
    /\ roughing_settings = [method |-> "CONCENTRIC", passes |-> <<>>]
    /\ results = <<>>
    /\ contour = [radii |-> EmptyArr, z_map |-> EmptyArr]
    /\ tool = [tool_radius |-> RZero]
    /\ kinematics = EmptyArr

NextVoxel ==
    \/ \E i \in 0 .. NumSimFrames - 1 : ProcessFrame(i)
    \/ ReturnDeathTimes

SpecVoxel == InitVoxel /\ [][NextVoxel]_vars

----------------------------------------------------------------------------
(* Movement path builder: core/cam/movement_path.py.                       *)
(*                                                                         *)
(* A kinematics solution is the array of its <<x_machine, z_machine>>      *)
(* samples; theta_machine_deg is degrees(linspace(0, 2*pi, N, endpoint =   *)
(* False)), so sample k has angle 360*k/N.  A frame is <<x, z, theta>>.    *)

MaxPasses == 2      \* roughing passes handed to the builder
MaxContour == 2     \* samples of a contour (N)

HomeX == -50                  \* home_x default
HomeZ == 0                    \* home_z default
XYZFeedrate == 50             \* xyz_feedrate, mm/s
PlaybackHz == 30              \* frames per second of a linear move
ZeroDistanceFrames == 10      \* n_frames of a linear move of distance 0
BevelSpeed == 10              \* beveling_speed_override or 10.0, s/rev
WheelXRough == 94             \* wheel_x_rough, rounded to mm
WheelZRough == -132           \* wheel_z_rough, rounded to mm
WheelXBevel == 89             \* wheel_x_bevel, rounded to mm
WheelZBevel == -117           \* wheel_z_bevel, rounded to mm

Home == <<RInt(HomeX), RInt(HomeZ), RZero>>

ArrLast(a) == a[Len0(a) - 1]

ConcatArr(a, b) ==
    [i \in 0 .. Len0(a) + Len0(b) - 1 |->
        IF i < Len0(a) THEN a[i] ELSE b[i - Len0(a)]]

\* np.linspace(a, b, n)
Linspace(a, b, n) ==
    [k \in 0 .. n - 1 |->
        IF n = 1 THEN a
        ELSE RAdd(a, RDiv(RMul(RInt(k), RSub(b, a)), RInt(n - 1)))]

\* np.sqrt of a sum of two squares; the positions of the model are chosen so
\* that every distance taken is a whole number of mm
ExactSqrt(n) == CHOOSE r \in 0 .. n : r * r = n

Distance(x1, z1, x2, z2) ==
    LET dx == RSub(x1, x2)
        dz == RSub(z1, z2)
        sq == RAdd(RMul(dx, dx), RMul(dz, dz))
    IN  Rat(ExactSqrt(sq[1]), ExactSqrt(sq[2]))

\* int(): truncation, of a value that is never negative here
IntTrunc(q) == q[1] \div q[2]

Max(a, b) == IF a >= b THEN a ELSE b

\* _generate_linear_path
GenerateLinearPath(start, end, distance_mm, speed_mm_per_sec, operation_type) ==
    LET moving == RLt(RZero, distance_mm)
        duration == RDiv(distance_mm, speed_mm_per_sec)
        n_frames == IF moving
                    THEN Max(IntTrunc(RMul(duration, RInt(PlaybackHz))), 2)
                    ELSE ZeroDistanceFrames
    IN  [operation_type |-> operation_type,
         pass_index |-> 0,
         has_data |-> TRUE,
         x |-> Linspace(start[1], end[1], n_frames),
         z |-> Linspace(start[2], end[2], n_frames),
         theta |-> Linspace(start[3], end[3], n_frames),
         time |-> Linspace(RZero, IF moving THEN duration ELSE Rat(1, 10), n_frames),
         total_frames |-> n_frames]

\* kinematics['theta_machine_deg']
ThetaMachineDeg(kin) == [k \in DOMAIN kin |-> Rat(360 * k, Len0(kin))]

\* the frame of sample k of a cut: x = wheel_x - x_machine, z = wheel_z + z_machine
CutFrame(kin, wheel, k) ==
    <<RInt(wheel[1] - kin[k][1]), RInt(wheel[2] + kin[k][2]), ThetaMachineDeg(kin)[k]>>

\* _generate_cutting_path
GenerateCuttingPath(kin, wheel, speed_s_per_rev, operation_type, pass_index) ==
    IF Len0(kin) = 0
    THEN [operation_type |-> operation_type, pass_index |-> pass_index,
          has_data |-> FALSE, x |-> EmptyArr, z |-> EmptyArr, theta |-> EmptyArr,
          time |-> EmptyArr, total_frames |-> 0]
    ELSE LET n == Len0(kin)
             max_theta == ArrLast(ThetaMachineDeg(kin))
             total_time == IF RLt(RZero, max_theta)
                           THEN RMul(RDiv(max_theta, RInt(360)), speed_s_per_rev)
                           ELSE RDiv(RMul(RInt(n), speed_s_per_rev), RInt(360))
         IN  [operation_type |-> operation_type, pass_index |-> pass_index,
              has_data |-> TRUE,
              x |-> [k \in 0 .. n - 1 |-> CutFrame(kin, wheel, k)[1]],
              z |-> [k \in 0 .. n - 1 |-> CutFrame(kin, wheel, k)[2]],
              theta |-> ThetaMachineDeg(kin),
              time |-> Linspace(RZero, total_time, n),
              total_frames |-> n]

HomeStep ==
    [operation_type |-> "home", pass_index |-> 0, has_data |-> TRUE,
     x |-> [k \in {0} |-> RInt(HomeX)], z |-> [k \in {0} |-> RInt(HomeZ)],
     theta |-> [k \in {0} |-> RZero], time |-> [k \in {0} |-> RZero],
     total_frames |-> 1]

\* the pass loop of generate_full_roughing_path from pass k on, the machine
\* standing at current, followed by the retract to home
RECURSIVE RoughingLoop(_, _, _, _)
RoughingLoop(passes, k, current, wheel) ==
    IF k > Len(passes)
    THEN << GenerateLinearPath(current, Home,
                               Distance(Home[1], Home[2], current[1], current[2]),
                               RInt(XYZFeedrate), "retract") >>
    ELSE LET kin == passes[k].kinematics
         IN  IF Len0(kin) = 0
             THEN RoughingLoop(passes, k + 1, current, wheel)
             ELSE LET start == CutFrame(kin, wheel, 0)
                      end == CutFrame(kin, wheel, Len0(kin) - 1)
                      approach_dist == Distance(start[1], start[2],
                                                current[1], current[2])
                  IN  << GenerateLinearPath(current, start, approach_dist,
                                            RInt(XYZFeedrate), "approach"),
                         GenerateCuttingPath(kin, wheel, passes[k].speed_s_per_rev,
                                             "roughing", k) >>
                      \o RoughingLoop(passes, k + 1, end, wheel)

\* generate_full_roughing_path: the steps of the returned MovementPath
GenerateFullRoughingPath(passes, wheel) ==
    IF Len(passes) = 0 THEN <<>>
    ELSE <<HomeStep>> \o RoughingLoop(passes, 1, Home, wheel)

\* whether generate_full_beveling_path emits its approach step
BevelApproachEmitted(approach_dist) == RLt(Rat(1, 10), approach_dist)

\* whether generate_full_beveling_path emits its retract step
BevelRetractAlways(retract_dist) == TRUE

BevelRetractEmitted(retract_dist) == RLt(Rat(1, 10), retract_dist)

\* generate_full_beveling_path: the steps of the returned MovementPath
GenerateFullBevelingPath(kin, wheel, speed_s_per_rev) ==
    IF Len0(kin) = 0 THEN <<HomeStep>>
    ELSE LET start == CutFrame(kin, wheel, 0)
             end == CutFrame(kin, wheel, Len0(kin) - 1)
             approach_dist == Distance(start[1], start[2], RZero, RZero)
             retract_dist == Distance(Home[1], Home[2], end[1], end[2])
         IN  <<HomeStep>>
             \o (IF BevelApproachEmitted(approach_dist)
                 THEN << GenerateLinearPath(Home, start, approach_dist,
                                            RInt(XYZFeedrate), "approach") >>
                 ELSE <<>>)
             \o << GenerateCuttingPath(kin, wheel, speed_s_per_rev, "beveling", 1) >>
             \o (IF BevelRetractEmitted(retract_dist)
                 THEN << GenerateLinearPath(end, Home, retract_dist,
                                            RInt(XYZFeedrate), "retract") >>
                 ELSE <<>>)

\* complete_steps = roughing_path.steps.copy(); extend(beveling_path.steps[1:])
CompleteSteps(rough_steps, bevel_steps) == rough_steps \o Tail(bevel_steps)

\* generate_complete_lens_path, the 'complete' entry; the machine configuration
\* has two wheels, so the beveling path is always generated
GenerateCompleteLensPath(passes, bevel_kin) ==
    CompleteSteps(
        GenerateFullRoughingPath(passes, <<WheelXRough, WheelZRough>>),
        GenerateFullBevelingPath(bevel_kin, <<WheelXBevel, WheelZBevel>>,
                                 RInt(BevelSpeed)))

\* adjusted_time = step.time + cumulative_time
AdjustedTimeNoOffset(step_time, cumulative_time) == step_time

AdjustedTime(step_time, cumulative_time) ==
    [i \in DOMAIN step_time |-> RAdd(step_time[i], cumulative_time)]

\* the lists and cumulative_time of get_full_path after the first k steps of
\* its loop, the lists being held concatenated
RECURSIVE FullPathAfter(_, _)
FullPathAfter(ss, k) ==
    IF k = 0
    THEN [x |-> EmptyArr, z |-> EmptyArr, theta |-> EmptyArr, time |-> EmptyArr,
          cumulative_time |-> RZero]
    ELSE LET before == FullPathAfter(ss, k - 1)
             step == ss[k]
             adjusted == AdjustedTime(step.time, before.cumulative_time)
         IN  IF step.has_data
             THEN [x |-> ConcatArr(before.x, step.x),
                   z |-> ConcatArr(before.z, step.z),
                   theta |-> ConcatArr(before.theta, step.theta),
                   time |-> ConcatArr(before.time, adjusted),
                   cumulative_time |-> ArrLast(adjusted)]
             ELSE before

\* MovementPath.get_full_path
GetFullPath(ss) ==
    LET done == FullPathAfter(ss, Len(ss))
    IN  [x |-> done.x, z |-> done.z, theta |-> done.theta, time |-> done.time]

\* paths = generate_complete_lens_path(...)
BuildCompletePath ==
    /\ pc = "configured"
    /\ steps' = GenerateCompleteLensPath(roughing_passes, bevel_kinematics)
    /\ pc' = "built"
    /\ UNCHANGED <<chainVars, pass_segments, death_times, rescaleVars, voxelVars,
                   roughing_passes, bevel_kinematics, full_path, frame_at_time,
                   roughVars, kinVars>>

\* x, z, theta, time = complete_path.get_full_path()
ConcatenatePath ==
    /\ pc = "built"
    /\ full_path' = GetFullPath(steps)
    /\ pc' = "concatenated"
    /\ UNCHANGED <<chainVars, pass_segments, death_times, rescaleVars, voxelVars,
                   roughing_passes, bevel_kinematics, steps, frame_at_time,
                   roughVars, kinVars>>

\* np.searchsorted(time, time_sec, side='left'): the binary search in [lo, hi)
RECURSIVE SearchSortedLeft(_, _, _, _)
SearchSortedLeft(time, time_sec, lo, hi) ==
    IF lo >= hi THEN lo
    ELSE LET mid == lo + ((hi - lo) \div 2)
         IN  IF RLt(time[mid], time_sec)
             THEN SearchSortedLeft(time, time_sec, mid + 1, hi)
             ELSE SearchSortedLeft(time, time_sec, lo, mid)

\* np.clip(idx, lo, hi)
Clip(idx, lo, hi) == IF idx < lo THEN lo ELSE IF idx > hi THEN hi ELSE idx

\* MovementPath.get_frame_at_time on the concatenated path; without the check
\* of len(time) the index of an empty path is out of range and nothing is
\* returned
GetFrameAtTimeUnchecked(path, time_sec) ==
    LET idx == Clip(SearchSortedLeft(path.time, time_sec, 0, Len0(path.time)),
                    0, Len0(path.x) - 1)
    IN  IF idx \in DOMAIN path.x
        THEN <<path.x[idx], path.z[idx], path.theta[idx]>>
        ELSE <<>>
GetFrameAtTime(path, time_sec) ==
    IF Len0(path.time) = 0 THEN <<RZero, RZero, RZero>>
    ELSE LET idx == Clip(SearchSortedLeft(path.time, time_sec, 0, Len0(path.time)),
                         0, Len0(path.x) - 1)
         IN  <<path.x[idx], path.z[idx], path.theta[idx]>>

\* time_sec of a query, in seconds
FrameTimes == {RZero, RInt(1), RInt(100)}

\* x, z, theta = complete_path.get_frame_at_time(time_sec)
QueryFrame ==
    /\ pc = "built"
    /\ \E time_sec \in FrameTimes :
          frame_at_time' = [t \in {time_sec} |->
                               GetFrameAtTime(GetFullPath(steps), t)]
    /\ pc' = "frame_read"
    /\ UNCHANGED <<chainVars, pass_segments, death_times, rescaleVars, voxelVars,
                   roughing_passes, bevel_kinematics, steps, full_path,
                   roughVars, kinVars>>

\* generate_path, step 5: the segment recorded for a cutting step
PassSegmentEndExclusive(step, frame_offset) ==
    [start_idx |-> frame_offset,
     end_idx |-> frame_offset + Len0(step.x),
     pass_index |-> step.pass_index,
     operation_type |-> step.operation_type,
     max_volume_rate |-> {}]

PassSegment(step, frame_offset) ==
    [start_idx |-> frame_offset,
     end_idx |-> frame_offset + Len0(step.x) - 1,
     pass_index |-> step.pass_index,
     operation_type |-> step.operation_type,
     max_volume_rate |-> {}]

\* generate_path, step 5: the segments and frame_offset after the first k steps
RECURSIVE SegmentsAfter(_, _)
SegmentsAfter(ss, k) ==
    IF k = 0 THEN [pass_segments |-> <<>>, frame_offset |-> 0]
    ELSE LET before == SegmentsAfter(ss, k - 1)
             step == ss[k]
             num_frames == Len0(step.x)
         IN  IF step.has_data /\ Len0(step.time) > 0
             THEN [pass_segments |->
                      IF step.operation_type \in {"roughing", "beveling"}
                      THEN Append(before.pass_segments,
                                  PassSegment(step, before.frame_offset))
                      ELSE before.pass_segments,
                   frame_offset |-> before.frame_offset + num_frames]
             ELSE before

\* roughing_idx when the loop of step 6 reaches segment j
RoughingIdx(segs, j) ==
    Cardinality({i \in 1 .. j - 1 : segs[i].operation_type = "roughing"})

\* generate_path, step 6: max_vol of the roughing results onto the segments
AssignMaxVolumeRate(segs, roughing_results) ==
    [j \in 1 .. Len(segs) |->
        IF /\ segs[j].operation_type = "roughing"
           /\ RoughingIdx(segs, j) < Len(roughing_results)
        THEN [segs[j] EXCEPT !.max_volume_rate =
                 roughing_results[RoughingIdx(segs, j) + 1].max_vol]
        ELSE segs[j]]

\* generate_path, steps 5 to 7: return path_data, time_data
StorePath ==
    /\ pc = "concatenated"
    /\ IF Len0(full_path.x) = 0
       THEN /\ pc' = "no_path"
            /\ UNCHANGED <<pass_segments, time_in, store_path_time>>
       ELSE /\ pc' = "stored"
            /\ pass_segments' =
                  AssignMaxVolumeRate(SegmentsAfter(steps, Len(steps)).pass_segments,
                                      roughing_passes)
            /\ time_in' = full_path.time
            /\ store_path_time' = full_path.time
    /\ UNCHANGED <<chainVars, death_times, volume_per_frame, max_allowed_rate, adjusted_time,
                   voxelVars, pathVars, roughVars, kinVars>>

\* machine positions a roughing cut, a bevel cut may start or end at: home,
\* the machine origin, and points at whole distances from both
RoughCutPositions == { <<HomeX, HomeZ>>, <<-47, 4>> }
BevelCutPositions == { <<HomeX, HomeZ>>, <<0, 0>>, <<-32, 24>> }

\* kinematics samples that put the cut at these positions
KinSamples(wheel, positions) ==
    { <<wheel[1] - p[1], p[2] - wheel[2]>> : p \in positions }

\* the solutions of contours of n samples: the cut starts at one of the
\* samples and moves to another, where it ends
KinSolutions(samples, n) ==
    { [k \in 0 .. n - 1 |-> IF k = 0 THEN s ELSE e] : s \in samples, e \in samples }

\* speed_s_per_rev of a roughing pass: the pass table's default
RoughingSpeeds == {RInt(15)}

\* a pass of the run: its contour has the run's n samples, or none
RoughingPassChoices(n) ==
    { [kinematics |-> kin, speed_s_per_rev |-> sp] :
        kin \in KinSolutions(KinSamples(<<WheelXRough, WheelZRough>>,
                                        RoughCutPositions), n)
                \cup {EmptyArr},
        sp \in RoughingSpeeds }

\* max_vol of the roughing results, in order: no result has a cap, or the
\* first one has
MaxVolProfiles(len) ==
    { [i \in 1 .. len |-> {}] } \cup
    { [i \in 1 .. len |-> IF i = 1 THEN {r} ELSE {}] : r \in CapRates }

\* the roughing results behind the passes of a run
PassLists(n) ==
    UNION { { [i \in 1 .. len |->
                  [kinematics |-> ps[i].kinematics,
                   speed_s_per_rev |-> ps[i].speed_s_per_rev,
                   max_vol |-> caps[i]]] :
                ps \in [1 .. len -> RoughingPassChoices(n)],
                caps \in MaxVolProfiles(len) } :
            len \in 0 .. MaxPasses }

InitPath ==
    /\ pc = "configured"
    /\ \E n \in 1 .. MaxContour : roughing_passes \in PassLists(n)
    /\ \E n \in 0 .. MaxContour :
          bevel_kinematics \in KinSolutions(KinSamples(<<WheelXBevel, WheelZBevel>>,
                                                       BevelCutPositions), n)
    /\ steps = <<>>
    /\ full_path = EmptyArr
    /\ pass_segments = <<>>
    /\ death_times = EmptyArr
    /\ time_in = EmptyArr
    /\ store_path_time = EmptyArr
    /\ volume_per_frame = EmptyArr
    /\ max_allowed_rate = EmptyArr
    /\ adjusted_time = EmptyArr
    /\ pending = {}
    /\ runs = EmptyArr
    /\ blank = EmptyArr
    /\ order = <<>>
    /\ tool_dist = EmptyArr
    /\ wheel_used = EmptyArr
    /\ frame_at_time = EmptyArr
    /\ final_radii = EmptyArr
    /\ blank_radius = RZero
    /\ roughing_settings = [method |-> "CONCENTRIC", passes |-> <<>>]
    /\ results = <<>>
    /\ contour = [radii |-> EmptyArr, z_map |-> EmptyArr]
    /\ tool = [tool_radius |-> RZero]
    /\ kinematics = EmptyArr

NextPath == BuildCompletePath \/ ConcatenatePath \/ StorePath \/ QueryFrame

SpecPath == InitPath /\ [][NextPath]_vars

----------------------------------------------------------------------------
(* Roughing contours: core/geometric/roughing_generation.py.               *)
(*                                                                         *)
(* A contour has six samples, at the angles k * 60 degrees.  The point of  *)
(* sample k is r_k * (cos, sin)(k * 60 deg); every cross product of two    *)
(* such points is r_j * r_k * sin((k - j) * 60 deg), a rational multiple   *)
(* of sqrt(3)/2, so orientations and the quotient new_r = numerator /      *)
(* denom are computed exactly, the common factor sqrt(3)/2 left out.       *)

MaxRoughOps == 2    \* configured passes of the roughing settings

Sixths == 0 .. 5

\* sin(d * 60 deg), in units of sqrt(3)/2
SinSixths(d) ==
    LET m == d % 6
    IN  IF m \in {1, 2} THEN 1 ELSE IF m \in {4, 5} THEN -1 ELSE 0

\* the cross product of the points of samples j and k
Cross(radii, j, k) == RMul(RMul(radii[j], radii[k]), RInt(SinSixths(k - j)))

\* twice the signed area of the triangle of the points of samples i, j, k
Orient(radii, i, j, k) ==
    RAdd(RAdd(Cross(radii, i, j), Cross(radii, j, k)), Cross(radii, k, i))

Sign(q) == IF q[1] > 0 THEN 1 ELSE IF q[1] < 0 THEN -1 ELSE 0

InClosedTriangle(radii, p, a, b, c) ==
    LET o1 == Sign(Orient(radii, a, b, p))
        o2 == Sign(Orient(radii, b, c, p))
        o3 == Sign(Orient(radii, c, a, p))
    IN  /\ Sign(Orient(radii, a, b, c)) # 0
        /\ \/ (o1 >= 0 /\ o2 >= 0 /\ o3 >= 0)
           \/ (o1 <= 0 /\ o2 <= 0 /\ o3 <= 0)

\* ConvexHull(points) raises: no three points span a triangle
HullDegenerate(radii) ==
    \A a, b, c \in DOMAIN radii : Sign(Orient(radii, a, b, c)) = 0

\* hull.vertices: the samples whose point is an extreme point of the hull
HullVertices(radii) ==
    { p \in DOMAIN radii :
        ~ \E a, b, c \in DOMAIN radii \ {p} :
              a < b /\ b < c /\ InClosedTriangle(radii, p, a, b, c) }

\* the k-th smallest element of a set of numbers, k from 0
RECURSIVE KthSmallest(_, _)
KthSmallest(S, k) ==
    LET lo == CHOOSE x \in S : \A y \in S : x <= y
    IN  IF k = 0 THEN lo ELSE KthSmallest(S \ {lo}, k - 1)

\* hull_angles after sorting and closing the loop, as sample numbers: entry h
\* is the h-th hull vertex, the entry after the last is the first plus 2*pi
HullAngle(hv, h) ==
    IF h < Cardinality(hv) THEN KthSmallest(hv, h) ELSE KthSmallest(hv, 0) + 6

\* current_hull_idx when the loop reaches sample i: the pointer advances while
\* theta is beyond the end of its segment and stops at max_hull_idx
CurrentHullIdx(hv, i) ==
    LET max_hull_idx == Cardinality(hv) - 1
    IN  CHOOSE idx \in 0 .. max_hull_idx :
            /\ idx = max_hull_idx \/ i <= HullAngle(hv, idx + 1)
            /\ \A j \in 0 .. idx - 1 : i > HullAngle(hv, j + 1)

\* new_radii[i]: the ray of sample i intersected with the line of the segment
NewRadius(radii, hv, i) ==
    LET idx == CurrentHullIdx(hv, i)
        a1 == HullAngle(hv, idx)
        a2 == HullAngle(hv, idx + 1)
        r1 == radii[a1 % 6]
        r2 == radii[a2 % 6]
        denom == RSub(RMul(r2, RInt(SinSixths(a2 - i))),
                      RMul(r1, RInt(SinSixths(a1 - i))))
        numerator == RMul(RMul(r1, r2), RInt(SinSixths(a2 - a1)))
    IN  IF denom = RZero THEN radii[i] ELSE RDiv(numerator, denom)

\* np.array(values): the six samples of a contour as a stored array
NpArray(values) ==
    (0 :> values[0]) @@ (1 :> values[1]) @@ (2 :> values[2]) @@
    (3 :> values[3]) @@ (4 :> values[4]) @@ (5 :> values[5])

\* get_convex_radii
GetConvexRadii(radii) ==
    IF HullDegenerate(radii) THEN radii
    ELSE LET hv == HullVertices(radii)
         IN  NpArray([i \in DOMAIN radii |-> NewRadius(radii, hv, i)])

RMax(a, b) == IF RLeq(a, b) THEN b ELSE a

RMin(a, b) == IF RLeq(a, b) THEN a ELSE b

\* calculate_mesh_volume(generate_lens_mesh(radii, ...)) for plane surfaces:
\* the area of the polygon of the samples times the thickness, the thickness
\* taken so that a triangle of two unit radii 60 degrees apart has volume 1
MeshVolume(radii) ==
    RAdd(RAdd(RAdd(RMul(radii[0], radii[1]), RMul(radii[1], radii[2])),
              RAdd(RMul(radii[2], radii[3]), RMul(radii[3], radii[4]))),
         RAdd(RMul(radii[4], radii[5]), RMul(radii[5], radii[0])))

\* the same for the blank, whose mesh has 360 samples of radius blank_radius:
\* 360 * sin(1 deg) / sin(60 deg) = 7.255 units per squared mm
BlankVolume(radius) == RMul(Rat(7255, 1000), RMul(radius, radius))

\* round(q, 2), ties to even
Round2(q) ==
    LET scaled == RMul(q, RInt(100))
        fl == scaled[1] \div scaled[2]
        twice == 2 * scaled[1] - 2 * fl * scaled[2]
        n == IF twice > scaled[2] THEN fl + 1
             ELSE IF twice < scaled[2] THEN fl
             ELSE IF fl % 2 = 0 THEN fl ELSE fl + 1
    IN  Rat(n, 100)

\* _create_pass_data
CreatePassData(index, radii, prev_vol, speed) ==
    LET new_vol == MeshVolume(radii)
        removed == RMax(RZero, RSub(prev_vol, new_vol))
    IN  [pass_data |-> [pass_index |-> index, radii |-> radii,
                        volume |-> Round2(removed), duration |-> speed],
         new_vol |-> new_vol]

\* idx_12h = int(n_points * 0.25)
Idx12h == 1

\* virtual_circle_radius after the first k configured passes
VirtualCircleRadius(blank_r, settings, k) ==
    IF k = 0 \/ settings.method # "CONCENTRIC" THEN blank_r
    ELSE LET RECURSIVE Steps(_)
             Steps(j) == IF j = 0 THEN RZero
                         ELSE RAdd(Steps(j - 1), settings.passes[j].step_value_mm)
         IN  RSub(blank_r, Steps(k))

\* proposed_radii of a configured pass, before the hull correction
ProposedRadiiMin(method, final, current_radii, virtual_circle_radius, step_value_mm) ==
    NpArray([i \in DOMAIN final |-> RMin(final[i], virtual_circle_radius)])
ProposedRadii(method, final, current_radii, virtual_circle_radius, step_value_mm) ==
    IF method = "CONCENTRIC"
    THEN NpArray([i \in DOMAIN final |-> RMax(final[i], virtual_circle_radius)])
    ELSE LET gap == RSub(current_radii[Idx12h], final[Idx12h])
             t == IF RLeq(gap, RZero) THEN RInt(1)
                  ELSE RMin(RDiv(step_value_mm, gap), RInt(1))
             step_radii == NpArray([i \in DOMAIN final |->
                               RSub(current_radii[i],
                                    RMul(t, RSub(current_radii[i], final[i])))])
         IN  NpArray([i \in DOMAIN final |-> RMax(final[i], step_radii[i])])

\* the contour of a configured pass: new_radii
PassContour(method, final, current_radii, virtual_circle_radius, step_value_mm) ==
    IF method \in {"CONCENTRIC", "INTERPOLATION"}
    THEN GetConvexRadii(ProposedRadii(method, final, current_radii,
                                      virtual_circle_radius, step_value_mm))
    ELSE current_radii

\* the state of the main loop after the first k configured passes
RECURSIVE MainLoop(_, _, _, _)
MainLoop(final, blank_r, settings, k) ==
    IF k = 0
    THEN [current_radii |-> NpArray([i \in DOMAIN final |-> blank_r]),
          virtual_circle_radius |-> blank_r,
          current_volume |-> BlankVolume(blank_r),
          results |-> <<>>]
    ELSE LET before == MainLoop(final, blank_r, settings, k - 1)
             op == settings.passes[k]
             virtual == IF settings.method = "CONCENTRIC"
                        THEN RSub(before.virtual_circle_radius, op.step_value_mm)
                        ELSE before.virtual_circle_radius
             new_radii == PassContour(settings.method, final, before.current_radii,
                                      virtual, op.step_value_mm)
             created == CreatePassData(k, new_radii, before.current_volume,
                                       op.speed_s_per_rev)
         IN  [current_radii |-> new_radii,
              virtual_circle_radius |-> virtual,
              current_volume |-> created.new_vol,
              results |-> Append(before.results, created.pass_data)]

\* np.max(current_radii - final_radii)
MaxDeviation(current_radii, final) ==
    LET d == [i \in DOMAIN final |-> RSub(current_radii[i], final[i])]
    IN  CHOOSE m \in {d[i] : i \in DOMAIN final} :
            \A i \in DOMAIN final : RLeq(d[i], m)

\* whether the finishing pass is appended
NeedsFinalCutAlways(max_deviation) == TRUE
NeedsFinalCut(max_deviation) == RLt(Rat(1, 1000), max_deviation)

\* operations[-1].speed_s_per_rev if operations else 10.0
FinalSpeed(passes) ==
    IF Len(passes) > 0 THEN passes[Len(passes)].speed_s_per_rev ELSE RInt(10)

\* generate_roughing_operations
GenerateRoughingOperations(final, blank_r, settings) ==
    LET done == MainLoop(final, blank_r, settings, Len(settings.passes))
    IN  IF NeedsFinalCut(MaxDeviation(done.current_radii, final))
        THEN Append(done.results,
                    CreatePassData(Len(done.results) + 1, final,
                                   done.current_volume,
                                   FinalSpeed(settings.passes)).pass_data)
        ELSE done.results

\* roughing_results = generate_roughing_operations(...)
GenerateRoughing ==
    /\ pc = "roughing_configured"
    /\ results' = GenerateRoughingOperations(final_radii, blank_radius,
                                             roughing_settings)
    /\ pc' = "roughing_generated"
    /\ UNCHANGED <<chainVars, pass_segments, death_times, rescaleVars, voxelVars, pathVars,
                   final_radii, blank_radius, roughing_settings, kinVars>>

\* radii of the target contour, of the blank, and step values of a pass, in mm
TargetRadii == {RInt(2), RInt(6)}
BlankRadii == {RInt(4), RInt(10)}
StepValues == {RInt(2), RInt(4)}

\* target contours: samples 0, 1 and 5 vary, samples 2, 3, 4 share a radius,
\* and sample 1 has one more radius to choose from
TargetContours ==
    { NpArray([i \in Sixths |-> IF i = 0 THEN a ELSE IF i = 1 THEN b
                                ELSE IF i = 5 THEN c ELSE d]) :
        a \in TargetRadii, b \in TargetRadii \cup {RInt(5)},
        c \in TargetRadii, d \in TargetRadii }

RoughingPassParams ==
    { [step_value_mm |-> st, speed_s_per_rev |-> sp] :
        st \in StepValues, sp \in RoughingSpeeds }

\* a circular blank of radius 50, a target constant at 45, one pass of step 3
\* and 15 s per revolution
ExampleScenario ==
    [final_radii |-> NpArray([i \in Sixths |-> RInt(45)]),
     blank_radius |-> RInt(50),
     passes |-> <<[step_value_mm |-> RInt(3), speed_s_per_rev |-> RInt(15)]>>]

InitRoughing ==
    /\ pc = "roughing_configured"
    /\ \/ /\ final_radii \in TargetContours
          /\ blank_radius \in BlankRadii
          /\ roughing_settings \in
                { [method |-> me, passes |-> ps] :
                    me \in {"CONCENTRIC", "INTERPOLATION"},
                    ps \in UNION { [1 .. len -> RoughingPassParams] :
                                    len \in 0 .. MaxRoughOps } }
       \/ /\ final_radii = ExampleScenario.final_radii
          /\ blank_radius = ExampleScenario.blank_radius
          /\ roughing_settings \in
                { [method |-> me, passes |-> ExampleScenario.passes] :
                    me \in {"CONCENTRIC", "INTERPOLATION"} }
    /\ results = <<>>
    /\ pass_segments = <<>>
    /\ death_times = EmptyArr
    /\ time_in = EmptyArr
    /\ store_path_time = EmptyArr
    /\ volume_per_frame = EmptyArr
    /\ max_allowed_rate = EmptyArr
    /\ adjusted_time = EmptyArr
    /\ pending = {}
    /\ runs = EmptyArr
    /\ blank = EmptyArr
    /\ order = <<>>
    /\ tool_dist = EmptyArr
    /\ wheel_used = EmptyArr
    /\ roughing_passes = <<>>
    /\ bevel_kinematics = EmptyArr
    /\ steps = <<>>
    /\ full_path = EmptyArr
    /\ frame_at_time = EmptyArr
    /\ contour = [radii |-> EmptyArr, z_map |-> EmptyArr]
    /\ tool = [tool_radius |-> RZero]
    /\ kinematics = EmptyArr

NextRoughing == GenerateRoughing

SpecRoughing == InitRoughing /\ [][NextRoughing]_vars

-----------------------------------------------------------------------------
(* The kinematics solver: solve_lens_kinematics_robust.                     *)
(* Contours have 0, 1, 2 or 4 samples, so that every lens and machine angle *)
(* is a whole number of quarter turns and the rotation is exact.            *)

SampleCounts == {0, 1, 2, 4}

\* cos and sin of q quarter turns
CosQuarter(q) ==
    LET m == ((q % 4) + 4) % 4
    IN  IF m = 0 THEN 1 ELSE IF m = 2 THEN -1 ELSE 0

SinQuarter(q) ==
    LET m == ((q % 4) + 4) % 4
    IN  IF m = 1 THEN 1 ELSE IF m = 3 THEN -1 ELSE 0

\* angles_lens[j] and theta_machine[j] of an n-sample contour, in quarter turns
QuarterTurns(n, j) == j * (4 \div n)

\* x_rot[j] and y_rot[j] at machine step m
XRot(radii, j, m) ==
    LET n == Len0(radii)
    IN  RMul(radii[j], RInt(CosQuarter(QuarterTurns(n, j) - QuarterTurns(n, m))))

YRot(radii, j, m) ==
    LET n == Len0(radii)
    IN  RMul(radii[j], RInt(SinQuarter(QuarterTurns(n, j) - QuarterTurns(n, m))))

\* valid_mask: the points with |y_rot| < a
ValidMask(radii, a, m) ==
    { j \in DOMAIN radii : RLt(RAbs(YRot(radii, j, m)), a) }

\* valid_indices = np.where(valid_mask)[0]
ValidIndices(radii, a, m) ==
    LET valid == ValidMask(radii, a, m)
    IN  [k \in 0 .. Cardinality(valid) - 1 |-> KthSmallest(valid, k)]

\* term_sq = 1 - y^2 / a^2, clipped at 0
TermSq(y, a) ==
    LET t == RSub(RInt(1), RDiv(RMul(y, y), RMul(a, a)))
    IN  IF RLt(t, RZero) THEN RZero ELSE t

\* np.sqrt of a fraction of two squares
RSqrt(q) ==
    LET ISqrt(n) == CHOOSE k \in 0 .. n : k * k = n
    IN  Rat(ISqrt(q[1]), ISqrt(q[2]))

\* the required tool centre of contour point j at machine step m
XCenter(radii, tool_p, j, m) ==
    LET a == tool_p.tool_radius
        b == RMul(tool_p.tool_radius, tool_p.cos_tilt)
    IN  RAdd(XRot(radii, j, m), RMul(b, RSqrt(TermSq(YRot(radii, j, m), a))))

\* x_centers: the required tool centres of the valid points
XCenters(radii, tool_p, m) ==
    LET valid_indices == ValidIndices(radii, tool_p.tool_radius, m)
    IN  [k \in DOMAIN valid_indices |-> XCenter(radii, tool_p, valid_indices[k], m)]

\* np.argmax: the first index of the largest entry
ArgMaxFirst(x_centers) == 0
ArgMax(x_centers) ==
    CHOOSE k \in DOMAIN x_centers :
        /\ \A j \in DOMAIN x_centers : RLeq(x_centers[j], x_centers[k])
        /\ \A j \in DOMAIN x_centers : j < k => RLt(x_centers[j], x_centers[k])

\* the safe retract of a step without a valid point
SafeRetractNone(tool_radius) == tool_radius
SafeRetract(tool_radius) == RAdd(tool_radius, RInt(100))

\* one iteration of the loop over theta_machine: the x and z appended
MachineStep(radii, z_map, tool_p, m) ==
    IF ValidMask(radii, tool_p.tool_radius, m) = {}
    THEN [x |-> SafeRetract(tool_p.tool_radius), z |-> tool_p.tool_z_offset]
    ELSE LET x_centers == XCenters(radii, tool_p, m)
             max_idx_local == ArgMax(x_centers)
             current_machine_x == x_centers[max_idx_local]
             valid_indices == ValidIndices(radii, tool_p.tool_radius, m)
             contact_point_idx == valid_indices[max_idx_local]
             tilt_z_comp == RMul(RSub(current_machine_x,
                                      XRot(radii, max_idx_local, m)),
                                 tool_p.tan_tilt)
         IN  [x |-> current_machine_x,
              z |-> RSub(RSub(tool_p.tool_z_offset, z_map[contact_point_idx]),
                         tilt_z_comp)]

\* solve_lens_kinematics_robust
SolveLensKinematicsRobust(radii, z_map, tool_p) ==
    [theta_machine_deg |-> [m \in DOMAIN radii |-> RInt(90 * QuarterTurns(Len0(radii), m))],
     x_machine |-> [m \in DOMAIN radii |-> MachineStep(radii, z_map, tool_p, m).x],
     z_machine |-> [m \in DOMAIN radii |-> MachineStep(radii, z_map, tool_p, m).z]]

\* kinematics = solve_lens_kinematics_robust(radii, z_map, ...)
SolveKinematics ==
    /\ pc = "contour_loaded"
    /\ kinematics' = SolveLensKinematicsRobust(contour.radii, contour.z_map, tool)
    /\ pc' = "kinematics_solved"
    /\ UNCHANGED <<chainVars, pass_segments, death_times, rescaleVars, voxelVars, pathVars,
                   roughVars, contour, tool>>

\* radii and axial heights of a contour point, in mm
ContourRadii == {RInt(3), RInt(4), RInt(6)}
ContourHeights == {RZero, RInt(2)}

\* the wheel: radius 5 or none, upright or tilted with cos 4/5 and tan 3/4
ToolWheels ==
    { [tool_radius |-> r, cos_tilt |-> t[1], tan_tilt |-> t[2], tool_z_offset |-> o] :
        r \in {RZero, RInt(5)},
        t \in {<<RInt(1), RZero>>, <<Rat(4, 5), Rat(3, 4)>>},
        o \in {RZero, RInt(7)} }

InitKinematics ==
    /\ pc = "contour_loaded"
    /\ contour \in UNION { { [radii |-> r, z_map |-> z] :
                               r \in [0 .. n - 1 -> ContourRadii],
                               z \in [0 .. n - 1 -> ContourHeights] } :
                           n \in SampleCounts }
    /\ tool \in ToolWheels
    /\ kinematics = EmptyArr
    /\ final_radii = EmptyArr
    /\ blank_radius = RZero
    /\ roughing_settings = [method |-> "CONCENTRIC", passes |-> <<>>]
    /\ results = <<>>
    /\ pass_segments = <<>>
    /\ death_times = EmptyArr
    /\ time_in = EmptyArr
    /\ store_path_time = EmptyArr
    /\ volume_per_frame = EmptyArr
    /\ max_allowed_rate = EmptyArr
    /\ adjusted_time = EmptyArr
    /\ pending = {}
    /\ runs = EmptyArr
    /\ blank = EmptyArr
    /\ order = <<>>
    /\ tool_dist = EmptyArr
    /\ wheel_used = EmptyArr
    /\ roughing_passes = <<>>
    /\ bevel_kinematics = EmptyArr
    /\ steps = <<>>
    /\ full_path = EmptyArr
    /\ frame_at_time = EmptyArr

NextKinematics == SolveKinematics

SpecKinematics == InitKinematics /\ [][NextKinematics]_vars

----------------------------------------------------------------------------
(* Properties of the rescaling.                                            *)

\* the callback reached the call of adjust_time_array_for_volume_constraints
RescaleComputed == pc \in {"unchanged", "updated"}

OriginalDelta(i) == RSub(time_in[i], time_in[i - 1])
NewDelta(i) == RSub(adjusted_time[i], adjusted_time[i - 1])

\* C1: after rescaling every frame i >= 1 respects its cap,
\* volume_removed_per_frame[i] <= max_allowed_rate[i] * (t'[i] - t'[i-1]),
\* the first frame of a step (original delta 0) included.
C1_CapRespected ==
    RescaleComputed =>
        \A i \in DOMAIN adjusted_time \ {0} :
            RLeq(volume_per_frame[i], RMul(max_allowed_rate[i], NewDelta(i)))

\* C1, what the code does guarantee: the cap holds at every frame whose
\* original delta is positive
C1_CapRespectedPositiveDelta ==
    RescaleComputed =>
        \A i \in DOMAIN adjusted_time \ {0} :
            RLt(RZero, OriginalDelta(i)) =>
                RLeq(volume_per_frame[i], RMul(max_allowed_rate[i], NewDelta(i)))

\* C2: rescaling only lengthens: same number of frames, every adjusted delta
\* >= the original delta, the adjusted array non-decreasing and its last
\* value >= the original total duration.
C2_OnlyLengthens ==
    RescaleComputed =>
        /\ DOMAIN adjusted_time = DOMAIN time_in
        /\ \A i \in DOMAIN adjusted_time \ {0} :
              /\ RLeq(OriginalDelta(i), NewDelta(i))
              /\ RLeq(adjusted_time[i - 1], adjusted_time[i])
        /\ RLeq(time_in[NumFrames - 1], adjusted_time[NumFrames - 1])

\* a run where one frame was stretched and another kept its delta
C2_Witness ==
    /\ pc = "updated"
    /\ \E i \in Frames \ {0} : RLt(OriginalDelta(i), NewDelta(i))
    /\ \E i \in Frames \ {0} :
          RLt(RZero, OriginalDelta(i)) /\ NewDelta(i) = OriginalDelta(i)

AllUnset(segs) == \A j \in 1 .. Len(segs) : IsNone(segs[j].max_volume_rate)

\* C3: with every segment's max volume rate unset, rescaling leaves the
\* stored time array as it was, for any grid and any removed volumes.
C3_NoCapNoChange ==
    (pc # "volume_stored" /\ AllUnset(pass_segments)) =>
        store_path_time = time_in

\* a run with segments, none capped, whose removed volumes exceed the default
\* rate somewhere, so that the rescaling functions would have changed the array
C3_Witness ==
    /\ pc = "no_constraints"
    /\ pass_segments # <<>>
    /\ AdjustTimeArray(time_in,
                       VolumePerFrame(death_times, NumFrames, VoxelVolume),
                       MaxAllowedRate(pass_segments, NumFrames)) # time_in

InUnsetSegment(i) ==
    \E j \in 1 .. Len(pass_segments) :
        SegContains(pass_segments[j], i) /\ IsNone(pass_segments[j].max_volume_rate)

\* C4 as stated: when some segment has a cap, a frame in a segment whose max
\* volume rate is unset keeps its original time delta, whatever its volume.
C4_UnsetKeepsDelta ==
    RescaleComputed =>
        \A i \in Frames \ {0} :
            InUnsetSegment(i) => NewDelta(i) = OriginalDelta(i)

\* C4 as amended: a frame in a segment whose max volume rate is unset is held
\* to the default cap of 100 mm^3/s: its delta becomes volume / 100 when its
\* original delta is positive and volume / delta exceeds 100, and is kept
\* otherwise.
C4_UnsetUsesDefault ==
    RescaleComputed =>
        \A i \in Frames \ {0} :
            InUnsetSegment(i) =>
                NewDelta(i) =
                    IF /\ RLt(RZero, OriginalDelta(i))
                       /\ RLt(RMul(RInt(100), OriginalDelta(i)), volume_per_frame[i])
                    THEN RDiv(volume_per_frame[i], RInt(100))
                    ELSE OriginalDelta(i)

\* a frame of an uncapped segment, after a capped one, that was stretched
C4_Witness ==
    /\ RescaleComputed
    /\ \E i \in Frames \ {0} :
          /\ InUnsetSegment(i)
          /\ RLt(OriginalDelta(i), NewDelta(i))
          /\ \E j \in 1 .. Len(pass_segments) :
                pass_segments[j].end_idx < i /\ ~IsNone(pass_segments[j].max_volume_rate)

----------------------------------------------------------------------------
(* Properties of the voxel simulation.                                     *)

\* C5: a voxel's stored death-frame value never increases: after each
\* processed frame it is <= its value before that frame, and it never exceeds
\* the voxel's initial blank value.
C5_DeathNeverIncreases ==
    [][\A v \in SimVoxels :
          /\ RLeq(death_times'[v], death_times[v])
          /\ RLeq(death_times'[v], blank[v])]_vars

\* the value a processed frame f proposes for voxel v
Proposed(f, v) == MappedFrameValue(tool_dist[f][v], f, NumSimFrames)

\* a voxel cut by the frame processed first and re-visited by the frame
\* processed second, whose larger value was not taken
C5_Witness ==
    /\ Len(order) = 2
    /\ order[1] \in DOMAIN tool_dist
    /\ order[2] \in DOMAIN tool_dist
    /\ \E v \in SimVoxels :
          /\ blank[v] = RInt(DeathCeiling)
          /\ RLt(Proposed(order[1], v), Proposed(order[2], v))
          /\ RLt(Proposed(order[2], v), RInt(DeathCeiling))
          /\ death_times[v] = Proposed(order[1], v)

\* the candidates of voxel v: its blank value and what each processed frame
\* with an active wheel proposed
Candidates(v) == {blank[v]} \cup {Proposed(f, v) : f \in DOMAIN tool_dist}

\* C6: whatever the order in which the frames were processed, each voxel
\* holds the minimum of its initial value and the mapped values of the
\* processed frames that cut it.
C6_MinOverFrames ==
    \A v \in SimVoxels :
        /\ death_times[v] \in Candidates(v)
        /\ \A x \in Candidates(v) : RLeq(death_times[v], x)

\* the later frame ran first, both frames cut the same voxel with different
\* values, and the simulation has returned
C6_Witness ==
    /\ pc = "simulated"
    /\ Len(order) = 2
    /\ order[1] > order[2]
    /\ order[1] \in DOMAIN tool_dist
    /\ order[2] \in DOMAIN tool_dist
    /\ \E v \in SimVoxels :
          /\ RLt(Proposed(order[2], v), Proposed(order[1], v))
          /\ RLt(Proposed(order[1], v), blank[v])

----------------------------------------------------------------------------
(* Properties of the path builder.                                         *)

PathBuilt == pc \in {"built", "concatenated"}

StepIndices == 1 .. Len(steps)

FirstFrame(step) == <<step.x[0], step.z[0], step.theta[0]>>

LastFrame(step) == <<ArrLast(step.x), ArrLast(step.z), ArrLast(step.theta)>>

\* the sum over the first k steps of each step's own duration
RECURSIVE StepDurationSum(_)
StepDurationSum(k) ==
    IF k = 0 THEN RZero
    ELSE RAdd(IF steps[k].has_data THEN ArrLast(steps[k].time) ELSE RZero,
              StepDurationSum(k - 1))

IsCut(step) == step.operation_type \in {"roughing", "beveling"}

\* C8: consecutive steps of the complete path join (the later step's first
\* frame is the earlier step's last frame), and every roughing and beveling
\* step is directly preceded by an approach step that ends at the cut's first
\* frame.
C8_Continuous ==
    PathBuilt =>
        /\ \A k \in StepIndices :
              k > 1 => FirstFrame(steps[k]) = LastFrame(steps[k - 1])
        /\ \A k \in StepIndices :
              IsCut(steps[k]) =>
                 /\ k > 1
                 /\ steps[k - 1].operation_type = "approach"
                 /\ LastFrame(steps[k - 1]) = FirstFrame(steps[k])

\* the bevel cut's first frame lies more than 0.1 mm from the machine origin
BevelStartsOffOrigin ==
    \A k \in StepIndices :
        steps[k].operation_type = "beveling" =>
            LET f == FirstFrame(steps[k])
            IN  RLt(Rat(1, 100), RAdd(RMul(f[1], f[1]), RMul(f[2], f[2])))

\* with the bevel cut starting off the origin the path is continuous
C8_ContinuousOffOrigin ==
    (PathBuilt /\ BevelStartsOffOrigin) => C8_Continuous

IsHomeStep(step) ==
    /\ step.operation_type = "home"
    /\ step.total_frames = 1
    /\ Len0(step.x) = 1
    /\ FirstFrame(step) = Home

\* C9: for every input, an empty roughing pass list included, the complete
\* path starts with one home step of one frame at the home position and has
\* no other home step.
C9_SingleLeadingHome ==
    PathBuilt =>
        /\ Len(steps) >= 1
        /\ IsHomeStep(steps[1])
        /\ \A k \in StepIndices : k > 1 => steps[k].operation_type # "home"

\* with a roughing pass list that is not empty the path does start so
C9_SingleLeadingHomeAfterRoughing ==
    (PathBuilt /\ Len(roughing_passes) > 0) => C9_SingleLeadingHome

RetractIndices == {k \in StepIndices : steps[k].operation_type = "retract"}

\* C10 as stated: the complete path has exactly one retract step, it is the
\* last step, after the beveling step, and it ends at home with angle 0.
C10_SingleFinalRetract ==
    PathBuilt =>
        /\ RetractIndices = {Len(steps)}
        /\ \E k \in StepIndices : steps[k].operation_type = "beveling"
        /\ LastFrame(steps[Len(steps)]) = Home

\* the beveling step ends more than 0.1 mm from home
EndsOffHome(step) ==
    LET f == LastFrame(step)
        dx == RSub(f[1], Home[1])
        dz == RSub(f[2], Home[2])
    IN  RLt(Rat(1, 100), RAdd(RMul(dx, dx), RMul(dz, dz)))

BevelRetractDue ==
    \E k \in StepIndices :
        steps[k].operation_type = "beveling" /\ EndsOffHome(steps[k])

\* C10: every retract step ends at home with angle 0; the path has one retract
\* step closing the roughing phase exactly when the roughing pass list is not
\* empty, and one more, directly after the beveling step and last in the path,
\* exactly when the beveling step ends more than 0.1 mm from home; it has no
\* other retract step.
C10_RetractSteps ==
    PathBuilt =>
        /\ \A k \in RetractIndices : LastFrame(steps[k]) = Home
        /\ Cardinality(RetractIndices) =
              (IF Len(roughing_passes) > 0 THEN 1 ELSE 0)
              + (IF BevelRetractDue THEN 1 ELSE 0)
        /\ Len(roughing_passes) > 0 =>
              \E k \in RetractIndices :
                 \A j \in StepIndices :
                    steps[j].operation_type = "beveling" => k < j
        /\ BevelRetractDue =>
              /\ Len(steps) \in RetractIndices
              /\ steps[Len(steps) - 1].operation_type = "beveling"
        /\ \A k \in StepIndices :
              (steps[k].operation_type = "beveling" /\ ~EndsOffHome(steps[k]))
                 => k = Len(steps)

\* a path with the roughing retract and the bevel retract
C10_Witness ==
    /\ PathBuilt
    /\ Cardinality(RetractIndices) = 2
    /\ \E k \in StepIndices : steps[k].operation_type = "roughing"
    /\ steps[Len(steps)].operation_type = "retract"

\* the number of frames the steps before step k put into the concatenated arrays
RECURSIVE FramesBefore(_)
FramesBefore(k) ==
    IF k = 1 THEN 0
    ELSE FramesBefore(k - 1)
         + (IF steps[k - 1].has_data THEN Len0(steps[k - 1].x) ELSE 0)

CutIndices == {k \in StepIndices : IsCut(steps[k])}

\* the segment of cutting step k: the same operation and pass, and the index
\* range the step's frames have in the concatenated arrays
IsSegmentOf(seg, k) ==
    /\ seg.operation_type = steps[k].operation_type
    /\ seg.pass_index = steps[k].pass_index
    /\ seg.start_idx = FramesBefore(k)
    /\ seg.end_idx = seg.start_idx + Len0(steps[k].x) - 1
    /\ \A i \in DOMAIN steps[k].x :
          /\ full_path.x[seg.start_idx + i] = steps[k].x[i]
          /\ full_path.z[seg.start_idx + i] = steps[k].z[i]
          /\ full_path.theta[seg.start_idx + i] = steps[k].theta[i]

\* C11: every roughing or beveling step has exactly one pass segment, from the
\* number of frames of all earlier steps to that plus its frame count minus 1;
\* the segments are disjoint, increasing, and end below total_frames.
C11_SegmentsIndexSteps ==
    pc = "stored" =>
        /\ \A k \in CutIndices :
              Cardinality({j \in 1 .. Len(pass_segments) :
                              IsSegmentOf(pass_segments[j], k)}) = 1
        /\ Len(pass_segments) = Cardinality(CutIndices)
        /\ \A j \in 1 .. Len(pass_segments) :
              /\ pass_segments[j].start_idx <= pass_segments[j].end_idx
              /\ pass_segments[j].end_idx < Len0(full_path.x)
              /\ j > 1 => pass_segments[j - 1].end_idx < pass_segments[j].start_idx

\* a stored path with two roughing segments and the beveling segment
C11_Witness ==
    /\ pc = "stored"
    /\ Len(pass_segments) = 3
    /\ pass_segments[3].operation_type = "beveling"
    /\ pass_segments[1].end_idx > pass_segments[1].start_idx

\* C12: the rescaling changes only the time array: the x, z and theta arrays,
\* total_frames and every pass segment are as before, and the time array keeps
\* one entry per frame, so every segment denotes the same frames.
C12_OnlyTimeChanges ==
    [][/\ full_path' = full_path
       /\ pass_segments' = pass_segments
       /\ Len0(store_path_time') = full_path.total_frames
       /\ \A j \in 1 .. Len(pass_segments') :
             /\ pass_segments'[j].start_idx \in DOMAIN store_path_time'
             /\ pass_segments'[j].end_idx \in DOMAIN store_path_time']_vars

\* the callback has stored a stretched time array for a path with two segments
C12_Witness ==
    /\ pc = "updated"
    /\ store_path_time # time_in
    /\ Len(pass_segments) = 2
    /\ pass_segments[2].pass_index = 2

-----------------------------------------------------------------------------
(* Properties of the roughing generator.                                   *)

\* the last contour of the returned sequence
LastContour == results[Len(results)].radii

\* a contour equals the target within 0.001 mm at every sample
EqualsTarget(radii, final) ==
    \A i \in DOMAIN final : RLeq(RAbs(RSub(radii[i], final[i])), Rat(1, 1000))

\* C13: for either method and every input, the returned sequence ends with a
\* contour equal to the target contour within 0.001 mm at every angle.
C13_EndsAtTarget ==
    pc = "roughing_generated" =>
        /\ Len(results) > 0
        /\ EqualsTarget(LastContour, final_radii)

\* the same, restricted to sequences that have a last contour
C13_LastContourAtTarget ==
    (pc = "roughing_generated" /\ Len(results) > 0) =>
        EqualsTarget(LastContour, final_radii)

\* the sequence is empty only when no pass is configured and the blank is
\* nowhere more than 0.001 mm above the target
C13_EmptyOnlyWithoutPasses ==
    (pc = "roughing_generated" /\ Len(results) = 0) =>
        /\ Len(roughing_settings.passes) = 0
        /\ \A i \in Sixths : RLeq(RSub(blank_radius, final_radii[i]), Rat(1, 1000))

\* max(contour): the largest radius of a contour
MaxRadius(radii) ==
    CHOOSE r \in {radii[i] : i \in DOMAIN radii} :
        \A i \in DOMAIN radii : RLeq(radii[i], r)

\* max(contour_{k-1}): the blank radius before the first returned contour
MaxRadiusBefore(k) ==
    IF k = 1 THEN blank_radius ELSE MaxRadius(results[k - 1].radii)

\* C14: for either method, the maximum radius of the returned contours is
\* non-increasing along the sequence, starting from the blank radius,
\* including the appended finishing pass.
C14_MaxRadiusNonIncreasing ==
    pc = "roughing_generated" =>
        \A k \in 1 .. Len(results) :
            RLeq(MaxRadius(results[k].radii), MaxRadiusBefore(k))

\* the sum of the removed volumes of the first k returned passes
RECURSIVE RemovedVolume(_)
RemovedVolume(k) ==
    IF k = 0 THEN RZero ELSE RAdd(RemovedVolume(k - 1), results[k].volume)

\* the rounding tolerance of a sum of k volumes rounded to two decimals
RoundingTolerance(k) == Rat(5 * k, 1000)

\* C15: no returned pass has a negative removed volume, and the removed
\* volumes of all returned passes sum to the blank volume minus the volume
\* of the last contour, within rounding tolerance.
C15_VolumeConserved ==
    (pc = "roughing_generated" /\ Len(results) > 0) =>
        /\ \A k \in 1 .. Len(results) : RLeq(RZero, results[k].volume)
        /\ RLeq(RAbs(RSub(RemovedVolume(Len(results)),
                          RSub(BlankVolume(blank_radius), MeshVolume(LastContour)))),
                RoundingTolerance(Len(results)))

\* no returned pass has a negative removed volume
C15_NoNegativeRemoval ==
    pc = "roughing_generated" =>
        \A k \in 1 .. Len(results) : RLeq(RZero, results[k].volume)

\* the contour is a circle: the same radius at every sample
IsCircle(radii) == \A i, j \in DOMAIN radii : radii[i] = radii[j]

\* max(target radius, blank radius minus the step values of passes 1..k)
ConcentricProposed(k) ==
    NpArray([i \in Sixths |->
                RMax(final_radii[i],
                     VirtualCircleRadius(blank_radius, roughing_settings, k))])

\* C16: with method CONCENTRIC the contour of the k-th configured pass is the
\* hull correction of max(target, blank minus the steps of passes 1..k) at
\* every angle; for a circular target the correction leaves it unchanged, so
\* blank 50, target 45 and one pass of step 3 yield exactly two passes, a
\* contour at 47 and a finishing pass at exactly 45.
C16_ConcentricContours ==
    (pc = "roughing_generated" /\ roughing_settings.method = "CONCENTRIC") =>
        /\ \A k \in 1 .. Len(roughing_settings.passes) :
              /\ results[k].radii = GetConvexRadii(ConcentricProposed(k))
              /\ IsCircle(final_radii) => results[k].radii = ConcentricProposed(k)
        /\ ( /\ final_radii = ExampleScenario.final_radii
             /\ blank_radius = ExampleScenario.blank_radius
             /\ roughing_settings.passes = ExampleScenario.passes )
           => /\ Len(results) = 2
              /\ results[1].radii = [i \in Sixths |-> RInt(47)]
              /\ results[2].radii = [i \in Sixths |-> RInt(45)]

C16_Witness ==
    /\ pc = "roughing_generated"
    /\ roughing_settings.method = "CONCENTRIC"
    /\ final_radii = ExampleScenario.final_radii
    /\ blank_radius = ExampleScenario.blank_radius
    /\ roughing_settings.passes = ExampleScenario.passes
    /\ Len(results) = 2
    /\ results[1].radii[0] = RInt(47)
    /\ results[2].radii[0] = RInt(45)

-----------------------------------------------------------------------------
(* Properties of the kinematics solver.                                    *)

\* the machine steps of the solved contour that have an accessible point
AccessibleSteps ==
    { m \in DOMAIN contour.radii :
        ValidMask(contour.radii, tool.tool_radius, m) # {} }

ContactPoint(m) ==
    LET valid == ValidMask(contour.radii, tool.tool_radius, m)
    IN  CHOOSE c \in valid :
            /\ \A j \in valid : RLeq(XCenter(contour.radii, tool, j, m),
                                      XCenter(contour.radii, tool, c, m))
            /\ \A j \in valid : j < c =>
                    RLt(XCenter(contour.radii, tool, j, m),
                        XCenter(contour.radii, tool, c, m))

\* z = axialZeroOffset - axialHeight[c] - (xCenter - xRotated[c]) * tan(tilt)
ZFromContact(m, c) ==
    RSub(RSub(tool.tool_z_offset, contour.z_map[c]),
         RMul(RSub(XCenter(contour.radii, tool, c, m), XRot(contour.radii, c, m)),
              tool.tan_tilt))

\* C18: at every machine step with an accessible point the emitted Z is
\* computed from the contact point itself, also when points with a smaller
\* index than the contact point were discarded by the off-axis filter.
C18_ZFromContactPoint ==
    pc = "kinematics_solved" =>
        \A m \in AccessibleSteps :
            kinematics.z_machine[m] = ZFromContact(m, ContactPoint(m))

\* the same, for the steps at which no point before the contact point was
\* discarded
C18_ZWhenNoneDiscardedBefore ==
    pc = "kinematics_solved" =>
        \A m \in AccessibleSteps :
            (\A j \in 0 .. ContactPoint(m) :
                 j \in ValidMask(contour.radii, tool.tool_radius, m))
            => kinematics.z_machine[m] = ZFromContact(m, ContactPoint(m))

\* C19: at a machine step where no contour point passes the off-axis filter
\* the solver emits x = cuttingRadius + 100 with Z = axialZeroOffset and
\* continues, so the three output arrays have exactly N entries for an
\* N-sample contour.
C19_SentinelAndLength ==
    pc = "kinematics_solved" =>
        /\ DOMAIN kinematics.theta_machine_deg = DOMAIN contour.radii
        /\ DOMAIN kinematics.x_machine = DOMAIN contour.radii
        /\ DOMAIN kinematics.z_machine = DOMAIN contour.radii
        /\ \A m \in DOMAIN contour.radii \ AccessibleSteps :
              /\ kinematics.x_machine[m] = RAdd(tool.tool_radius, RInt(100))
              /\ kinematics.z_machine[m] = tool.tool_z_offset

\* a solved contour of four samples with non-zero heights, no step of which
\* has an accessible point
C19_Witness ==
    /\ pc = "kinematics_solved"
    /\ Len0(contour.radii) = 4
    /\ AccessibleSteps = {}
    /\ \A m \in DOMAIN contour.radii : contour.z_map[m] # RZero
    /\ tool.tool_z_offset # RZero
    /\ Len0(kinematics.x_machine) = 4

-----------------------------------------------------------------------------
(* Properties of empty inputs of the path builder.                         *)

\* the cutting steps of a list of steps
CuttingSteps(ss) ==
    { k \in 1 .. Len(ss) : ss[k].operation_type \in {"roughing", "beveling"} }

\* the pass contours and the bevel contour that have samples
ContoursWithSamples ==
    Cardinality({ k \in 1 .. Len(roughing_passes) :
                    Len0(roughing_passes[k].kinematics) > 0 })
    + (IF Len0(bevel_kinematics) > 0 THEN 1 ELSE 0)

\* C20: generate_full_roughing_path with an empty pass list returns a path
\* with zero steps, a pass or bevel contour with zero samples contributes no
\* cutting step, and on a path with zero steps get_full_path returns four
\* empty arrays and get_frame_at_time returns (0, 0, 0).
C20_EmptyInputEmptyResult ==
    /\ Len(roughing_passes) = 0 =>
          GenerateFullRoughingPath(roughing_passes, <<WheelXRough, WheelZRough>>) = <<>>
    /\ pc # "configured" =>
          Cardinality(CuttingSteps(steps)) = ContoursWithSamples
    /\ (pc = "concatenated" /\ Len(steps) = 0) =>
          /\ Len0(full_path.x) = 0
          /\ Len0(full_path.z) = 0
          /\ Len0(full_path.theta) = 0
          /\ Len0(full_path.time) = 0
    /\ (pc = "frame_read" /\ Len(steps) = 0) =>
          \A t \in DOMAIN frame_at_time :
              frame_at_time[t] = <<RZero, RZero, RZero>>

\* a frame read from the path built of no pass and a bevel contour without
\* samples
C20_Witness ==
    /\ pc = "frame_read"
    /\ Len(roughing_passes) = 0
    /\ Len0(bevel_kinematics) = 0
    /\ Len(steps) = 0
    /\ \E t \in DOMAIN frame_at_time :
          frame_at_time[t] = <<RZero, RZero, RZero>>

-----------------------------------------------------------------------------
(* Properties of the hull resampling and of the returned pass list.        *)

\* the hull edge used for sample i has vertex angles that enclose the angle
\* of sample i, the closing edge enclosing the angles before the first vertex
\* as angles one turn later
EdgeEncloses(hv, i) ==
    LET idx == CurrentHullIdx(hv, i)
        a1 == HullAngle(hv, idx)
        a2 == HullAngle(hv, idx + 1)
    IN  \/ a1 <= i /\ i <= a2
        \/ idx = Cardinality(hv) - 1 /\ a1 <= i + 6 /\ i + 6 <= a2

\* the contours get_convex_radii was applied to in a CONCENTRIC run
ResampledContours ==
    { ConcentricProposed(k) : k \in 1 .. Len(roughing_settings.passes) }

\* C24: in get_convex_radii, for every output angle the hull edge used for the
\* ray intersection is the edge whose two vertex angles enclose the angle,
\* including the closing edge, also when the first hull vertex is not at
\* angle 0.
C24_EdgeEnclosesAngle ==
    (pc = "roughing_generated" /\ roughing_settings.method = "CONCENTRIC") =>
        \A radii \in ResampledContours :
            ~ HullDegenerate(radii) =>
                \A i \in Sixths : EdgeEncloses(HullVertices(radii), i)

\* the same, for the contours whose first hull vertex is at angle 0
C24_EdgeEnclosesWhenFirstAtZero ==
    (pc = "roughing_generated" /\ roughing_settings.method = "CONCENTRIC") =>
        \A radii \in ResampledContours :
            (~ HullDegenerate(radii) /\ 0 \in HullVertices(radii)) =>
                \A i \in Sixths : EdgeEncloses(HullVertices(radii), i)

\* the contour after the last configured pass: the blank when none is
\* configured
ContourAfterPasses ==
    IF Len(roughing_settings.passes) = 0
    THEN [i \in Sixths |-> blank_radius]
    ELSE results[Len(roughing_settings.passes)].radii

\* the contour after the last configured pass exceeds the target by more than
\* 0.001 mm at some angle
ExceedsTarget ==
    \E i \in Sixths :
        RLt(Rat(1, 1000), RSub(ContourAfterPasses[i], final_radii[i]))

\* C25: generate_roughing_operations returns one entry per configured pass,
\* in order, plus one finishing entry if and only if the contour after the
\* last configured pass exceeds the target by more than 0.001 mm at some
\* angle; the finishing entry's contour is the target itself, and pass_index
\* values are 1, 2, ..., len(result).
C25_OneEntryPerPass ==
    pc = "roughing_generated" =>
        LET n == Len(roughing_settings.passes)
        IN  /\ Len(results) >= n
            /\ \A k \in 1 .. n :
                  results[k].duration = roughing_settings.passes[k].speed_s_per_rev
            /\ Len(results) = IF ExceedsTarget THEN n + 1 ELSE n
            /\ Len(results) = n + 1 => results[n + 1].radii = final_radii
            /\ \A k \in 1 .. Len(results) : results[k].pass_index = k

\* two configured passes followed by the finishing entry, whose contour is a
\* target that is not convex
C25_Witness ==
    /\ pc = "roughing_generated"
    /\ Len(roughing_settings.passes) = 2
    /\ Len(results) = 3
    /\ results[3].radii = final_radii
    /\ GetConvexRadii(final_radii) # final_radii
    /\ results[3].pass_index = 3

\* a run of configured passes that needs no finishing entry
C25_NoFinishingReached ==
    /\ pc = "roughing_generated"
    /\ Len(roughing_settings.passes) = 2
    /\ Len(results) = 2

\* C27: no roughing contour cuts inside the target: every returned contour
\* has radius >= the target radius at every angle.
C27_NeverInsideTarget ==
    pc = "roughing_generated" =>
        \A k \in 1 .. Len(results) :
            \A i \in Sixths : RLeq(final_radii[i], results[k].radii[i])

\* the same for the contours before the hull correction
C27_ProposedNeverInsideTarget ==
    (pc = "roughing_generated" /\ roughing_settings.method = "CONCENTRIC") =>
        \A radii \in ResampledContours :
            \A i \in Sixths : RLeq(final_radii[i], radii[i])

-----------------------------------------------------------------------------
(* Properties of the frame query.                                          *)

\* frame idx of a concatenated path
FrameOf(path, idx) == <<path.x[idx], path.z[idx], path.theta[idx]>>

\* the frames of a path whose global time is nearest to t
NearestFrames(path, t) ==
    { idx \in DOMAIN path.time :
        \A j \in DOMAIN path.time :
            RLeq(RAbs(RSub(path.time[idx], t)), RAbs(RSub(path.time[j], t))) }

\* C26: for a non-empty path, get_frame_at_time(t) returns the (x, z, theta)
\* of the frame whose global time is nearest to t, clamped to the first frame
\* for t before the start and to the last frame for t after the end.
C26_NearestFrame ==
    (pc = "frame_read" /\ Len0(GetFullPath(steps).time) > 0) =>
        \A t \in DOMAIN frame_at_time :
            \E idx \in NearestFrames(GetFullPath(steps), t) :
                frame_at_time[t] = FrameOf(GetFullPath(steps), idx)

\* what the query returns: the first frame whose time is not before t, and
\* the last frame when every frame is before t
C26_FirstFrameNotBefore ==
    (pc = "frame_read" /\ Len0(GetFullPath(steps).time) > 0) =>
        LET path == GetFullPath(steps)
            last == Len0(path.time) - 1
        IN  \A t \in DOMAIN frame_at_time :
                \E idx \in DOMAIN path.time :
                    /\ frame_at_time[t] = FrameOf(path, idx)
                    /\ \A j \in 0 .. idx - 1 : RLt(path.time[j], t)
                    /\ idx = last \/ RLeq(t, path.time[idx])

-----------------------------------------------------------------------------
(* Properties of the approach steps.                                       *)

\* the approach steps of the built path
ApproachSteps == { k \in 1 .. Len(steps) : steps[k].operation_type = "approach" }

\* the XZ distance between the first and the last frame of a step
StepTravel(step) ==
    LET last == Len0(step.x) - 1
    IN  Distance(step.x[0], step.z[0], step.x[last], step.z[last])

\* the step-local time of the last frame of a step
StepDuration(step) == step.time[Len0(step.time) - 1]

\* C23: every approach step has at least 2 frames, a step-local time array
\* starting at 0, and a duration equal to the XZ distance between its first
\* and last frame divided by the feed rate, including when that distance is 0.
C23_ApproachTiming ==
    pc # "configured" =>
        \A k \in ApproachSteps :
            /\ steps[k].total_frames >= 2
            /\ Len0(steps[k].time) = steps[k].total_frames
            /\ steps[k].time[0] = RZero
            /\ StepDuration(steps[k]) =
                   RDiv(StepTravel(steps[k]), RInt(XYZFeedrate))

\* the frame count and the start of the time array
C23_ApproachFrames ==
    pc # "configured" =>
        \A k \in ApproachSteps :
            /\ steps[k].total_frames >= 2
            /\ Len0(steps[k].time) = steps[k].total_frames
            /\ steps[k].time[0] = RZero

\* the duration of the approach steps that precede a roughing pass and travel
C23_RoughingApproachDuration ==
    pc # "configured" =>
        \A k \in ApproachSteps :
            (steps[k + 1].operation_type = "roughing"
             /\ RLt(RZero, StepTravel(steps[k])))
            => StepDuration(steps[k]) =
                   RDiv(StepTravel(steps[k]), RInt(XYZFeedrate))

-----------------------------------------------------------------------------
(* Properties of the rate caps of the stored segments.                     *)

C30_CapWhenNoPassSkipped ==
    (pc = "stored" /\ \A k \in 1 .. Len(roughing_passes) :
                          Len0(roughing_passes[k].kinematics) > 0) =>
        \A j \in 1 .. Len(pass_segments) :
            IF pass_segments[j].operation_type = "roughing"
            THEN pass_segments[j].max_volume_rate =
                     roughing_passes[pass_segments[j].pass_index].max_vol
            ELSE pass_segments[j].max_volume_rate = {}

----------------------------------------------------------------------------
(* Wheel selection and the removal-rate histogram of the voxel simulation. *)

SegmentTypeAt(i) ==
    {pass_segments[j].operation_type :
        j \in {k \in 1 .. Len(pass_segments) : SegContains(pass_segments[k], i)}}

\* C21: a processed frame inside a roughing segment uses wheel 0, one inside
\* a beveling segment uses wheel 1, and processing a frame that lies in no
\* segment leaves every voxel value unchanged.
C21_WheelBySegment ==
    /\ [](\A i \in DOMAIN wheel_used :
             /\ "roughing" \in SegmentTypeAt(i) => wheel_used[i] = 0
             /\ "beveling" \in SegmentTypeAt(i) => wheel_used[i] = 1)
    /\ [][\A i \in StrideFrames(NumSimFrames) :
             (order' = Append(order, i) /\ SegmentTypeAt(i) = {})
                => death_times' = death_times]_vars

\* one processed frame was cut with wheel 0 inside a roughing segment, the
\* other with wheel 1 inside a beveling segment
C21_Witness ==
    /\ pc = "simulated"
    /\ \E i, k \in DOMAIN wheel_used :
          /\ "roughing" \in SegmentTypeAt(i) /\ wheel_used[i] = 0
          /\ "beveling" \in SegmentTypeAt(k) /\ wheel_used[k] = 1
          /\ i \in DOMAIN tool_dist /\ k \in DOMAIN tool_dist

\* a frame outside every segment was processed while a voxel still held
\* material
C21_NoSegmentFrameReached ==
    \E i \in DOMAIN wheel_used :
        /\ SegmentTypeAt(i) = {}
        /\ wheel_used[i] = -1
        /\ \E v \in SimVoxels : death_times[v] = RInt(DeathCeiling)

\* the tool fully covers voxel v at processed frame f
FullCut(f, v) == f \in DOMAIN tool_dist /\ tool_dist[f][v] = Rat(-1, 10)

\* the frame at which a material voxel is first fully cut
FirstFullCutAt(v, i) ==
    /\ blank[v] = RInt(DeathCeiling)
    /\ FullCut(i, v)
    /\ \A f \in 0 .. i - 1 : ~FullCut(f, v)

\* C22: the histogram of the simulated volume attributes each removed voxel
\* to the frame of its first full cut: entry i is the voxel volume times the
\* number of material voxels first fully cut at frame i, and voxels never cut
\* or never material count nowhere.
C22_HistogramAtCutFrame ==
    pc = "simulated" =>
        \A i \in 0 .. NumSimFrames - 1 :
            VolumePerFrame(death_times, NumSimFrames, VoxelVolume)[i] =
                RMul(RInt(Cardinality({v \in SimVoxels : FirstFullCutAt(v, i)})),
                     VoxelVolume)

\* what the encoding does: a material voxel left with the full-cut value of
\* frame f falls in bin f - 1, and in no bin for f = 0
C22_FullCutOneBinEarlier ==
    pc = "simulated" =>
        \A v \in SimVoxels : \A f \in DOMAIN tool_dist :
            (blank[v] = RInt(DeathCeiling) /\ FullCut(f, v)
               /\ death_times[v] = Proposed(f, v))
              => DeathFrameBin(death_times[v], NumSimFrames) = f - 1

\* a voxel outside the blank that no frame has lowered is counted in bin 0
C22_AirCountedAtFrameZero ==
    pc = "simulated" =>
        \A v \in SimVoxels :
            (blank[v] = RZero /\ death_times[v] = RZero)
              => VolumePerFrame(death_times, NumSimFrames, VoxelVolume)[0]
                    = VoxelVolume

----------------------------------------------------------------------------
(* Properties of the rescaling function and of the callback chain.         *)

\* C28: adjust_time_array_for_volume_constraints is idempotent for fixed
\* volumes and caps: applied to its own output (of a time array that starts
\* at 0) it returns that output unchanged.
C28_Idempotent ==
    RescaleComputed =>
        /\ time_in[0] = RZero
        /\ AdjustTimeArray(adjusted_time, volume_per_frame, max_allowed_rate)
              = adjusted_time

\* a run whose first application stretched a frame
C28_Witness ==
    /\ pc = "updated"
    /\ adjusted_time # time_in
    /\ \E i \in Frames \ {0} : RLt(OriginalDelta(i), NewDelta(i))

\* the one rescaling of the original time array
RescaledOnce ==
    AdjustTimeArray(time_in,
                    VolumePerFrame(death_times, NumFrames, VoxelVolume),
                    MaxAllowedRate(pass_segments, NumFrames))

\* C29: after one path-generation event generate_lens_volume_data runs once
\* and adjust_timing_for_volume_constraints runs once, when a volume was
\* stored, on the original time array; its write to the time store triggers
\* view callbacks only, so the chain stops and the stored time array is the
\* original one or its single rescaling.
C29_SingleRescaling ==
    /\ [](/\ \A c \in StoreCallbacks : runs[c] <= 1
          /\ \A c \in ViewCallbacks : runs[c] <= 2
          /\ store_path_time \in {time_in, RescaledOnce}
          /\ pending = {} =>
                /\ runs["generate_lens_volume_data"] = 1
                /\ runs["adjust_timing_for_volume_constraints"] =
                      (IF death_times = EmptyArr THEN 0 ELSE 1))
    /\ [][LET c == "adjust_timing_for_volume_constraints"
          IN  runs'[c] # runs[c] =>
                 /\ store_path_time = time_in
                 /\ pending' \cap StoreCallbacks = {}]_vars

\* the chain has stopped after the timing callback rewrote the time store
C29_Witness ==
    /\ pending = {}
    /\ pc = "updated"
    /\ store_path_time # time_in
    /\ runs["adjust_timing_for_volume_constraints"] = 1
    /\ runs["update_slider_max"] = 2

====
